---- MODULE Spec2Model ----
(***************************************************************************)
(* The per-project chat history store of blinkey-ide: ChatHistoryServiceImpl *)
(* (index file threads.json plus one thread-<id>.json per thread), its two  *)
(* codecs (AES-GCM "encryption" build and base64 "encoding" build) and the  *)
(* asynchronous file operations every public operation is made of.          *)
(*                                                                         *)
(* Every await on fs.* is one atomic step of a call; calls of different     *)
(* slots interleave at these steps.                                         *)
(***************************************************************************)
EXTENDS Integers, Sequences, FiniteSets, TLC

VARIABLES
  build,        \* which ChatHistoryServiceImpl is running: "encryption" | "encoding"
  env,          \* what the surroundings may do: [concurrent, faults]
  clock,        \* the wall clock read by new Date()
  usedIds,      \* thread ids randomUUID() has handed out
  chatDir,      \* does <root>/<dir>/chat exist
  indexFile,    \* content of threads.json, or Missing
  threadFiles,  \* content of thread-<id>.json per id, or Missing
  calls,        \* the calls in flight, one per slot
  left,         \* how many more events the surroundings cause
  applied,      \* the function applied last: its name, arguments and result
  widget        \* the chat widget: its fields, its handlers under way, its calls

vars == <<build, env, clock, usedIds, chatDir, indexFile, threadFiles, calls, left,
          applied, widget>>

(*************************** bounds of the model ***************************)
\* how many events (calls begun, ticks of the clock, files overwritten from
\* outside) the surroundings cause in one behaviour of each specification
MaxEvents == 2
MaxSeqEvents == 3
MaxFaultEvents == 2
MaxAppendEvents == 3
MaxIOEvents == 2
MaxLegacyEvents == 2
MaxRecoverEvents == 2
MaxMovedEvents == 2
MaxListEvents == 3
MaxOverlapEvents == 2
MaxWidgetEvents == 3
MaxHandlers == 2
\* how long the texts given to the codecs are, and those of them that are
\* encrypted and then changed before they are decrypted
MaxTextLen == 3
MaxSealedLen == 1
\* how many characters the first sentence of a first message has at most
MaxTitleBody == 62

Slots == {"a", "b"}
Roots == {"r1"}
ThreadIds == {"t1", "t2"}

(**************************** program constants ***************************)
PreviewLen == 100
TitleMaxLen == 60
TitleCutLen == 57

NoRoot == "<none>"
NoId == "<none>"

(******************************** strings *********************************)
\* A string is a sequence of one-character strings.
Rep(n, ch) == [i \in 1..n |-> ch]

MinOf(S) == CHOOSE i \in S : \A j \in S : i <= j

\* String.prototype.substring(a, b), 0-based, end exclusive
Substring(s, a, b) ==
  IF a >= Len(s) THEN <<>>
  ELSE SubSeq(s, a + 1, IF b < Len(s) THEN b ELSE Len(s))

IsSpace(ch) == ch \in {" ", "\n", "\t", "VT", "\f", "\r"}

\* String.prototype.trim()
Trim(s) ==
  LET keep == {i \in 1..Len(s) : ~IsSpace(s[i])}
  IN IF keep = {} THEN <<>>
     ELSE SubSeq(s, MinOf(keep), CHOOSE i \in keep : \A j \in keep : j <= i)

\* text.split(/[.!?]\s/)[0]
FirstSentence(text) ==
  LET hits == {i \in 1..(Len(text) - 1) :
                  text[i] \in {".", "!", "?"} /\ IsSpace(text[i + 1])}
  IN IF hits = {} THEN text ELSE SubSeq(text, 1, MinOf(hits) - 1)

GenerateTitle_NoCut(firstMessage) == FirstSentence(Trim(firstMessage.content))

generateTitle(firstMessage) ==
  LET text == Trim(firstMessage.content)
      firstSentence == FirstSentence(text)
  IN IF Len(firstSentence) <= TitleMaxLen
     THEN firstSentence
     ELSE Substring(text, 0, TitleCutLen) \o <<".", ".", ".">>

DefaultTitle == <<"N", "e", "w", " ", "C", "h", "a", "t">>

\* message.content.substring(0, 100)
Preview_Whole(content) == content

Preview(content) == Substring(content, 0, PreviewLen)

(************************** messages of the callers ***********************)
ShortText == <<"O", "k", ".", " ", "g", "o">>
LongText == Rep(PreviewLen, "x") \o <<"y">>

Messages ==
  { [id |-> "m1", role |-> "user", content |-> ShortText],
    [id |-> "m2", role |-> "user", content |-> LongText] }

Titles == { <<"r">> }

(************************ file contents and codecs ************************)
\* A file's text is one of
\*   [k: "json", doc]        JSON.stringify(doc)
\*   [k: "junk", brace, seg3] text that is no JSON; brace: trimmed it starts
\*                           with { or [; seg3: it has exactly two ':'
\*   [k: "b64", of]          base64 of the text `of`
\*   [k: "aes", key, of]     iv:tag:ciphertext of the text `of` under key
Missing == [k |-> "missing"]

JsonStringify(doc) == [k |-> "json", doc |-> doc]
JsonParseOk(t) == t.k = "json"
JsonParse(t) == t.doc

\* The document of the text '{}': JSON, but neither an index nor a thread
EmptyObject == [shape |-> "object"]

\* index.threads is an array
HasThreads(doc) == "threads" \in DOMAIN doc

Junk(brace, seg3) == [k |-> "junk", brace |-> brace, seg3 |-> seg3]

\* data.split(':').length === 3.  base64 text has no ':'; the JSON text of an
\* index with a summary or of a thread has more than two ':', that of the
\* empty index has one.
Seg3(t) == t.k = "aes" \/ (t.k = "junk" /\ t.seg3)

\* data.trim().startsWith('{') || data.trim().startsWith('[')
StartsBrace(t) == t.k = "json" \/ (t.k = "junk" /\ t.brace)

\* Buffer.from(data, 'base64').toString('utf8'): never throws; text that is
\* no base64 of a text decodes to bytes that are no JSON.
Base64Decode(t) == IF t.k = "b64" THEN t.of ELSE Junk(FALSE, FALSE)

encodeChatData(t) == [k |-> "b64", of |-> t]

decodeChatData(t) == Base64Decode(t)

isEncoded(t) ==
  IF Seg3(t) THEN TRUE
  ELSE IF StartsBrace(t) THEN FALSE
  ELSE StartsBrace(Base64Decode(t))

\* deriveKey(projectRoot) is a function of the root alone
deriveKey_Shared(root) == "key"

deriveKey(root) == root

encryptChatData(t, root) == [k |-> "aes", key |-> deriveKey(root), of |-> t]

\* decryptChatData throws unless the tag verifies under the root's key
DecryptOk(t, root) == t.k = "aes" /\ t.key = deriveKey(root)

decryptChatData(t, root) == t.of

isEncrypted(t) == Seg3(t)

\* the text is no JSON, also after every decoding
RECURSIVE NoJson(_)
NoJson(t) ==
  \/ t.k = "junk"
  \/ t.k \in {"b64", "aes"} /\ NoJson(t.of)

\* The generation of a file's text: 1 plaintext JSON, 2 base64 of JSON,
\* 3 AES-GCM; 0 for anything else
Generation(t) ==
  CASE t.k = "json" -> 1
    [] t.k = "b64" /\ t.of.k = "json" -> 2
    [] t.k = "aes" -> 3
    [] OTHER -> 0

\* the generation a build writes
WriteGeneration(b) == IF b = "encryption" THEN 3 ELSE 2

\* What a build writes for a text
EncodeFor(b, t, root) ==
  IF b = "encryption" THEN encryptChatData(t, root) ELSE encodeChatData(t)

ReadPlan_NoWriteBack(b, t, root) ==
  IF b = "encryption"
  THEN IF isEncrypted(t)
       THEN IF DecryptOk(t, root)
            THEN [fail |-> FALSE, text |-> decryptChatData(t, root), migrate |-> FALSE]
            ELSE [fail |-> TRUE, text |-> t, migrate |-> FALSE]
       ELSE [fail |-> FALSE, text |-> t, migrate |-> FALSE]
  ELSE IF isEncoded(t)
       THEN [fail |-> FALSE, text |-> decodeChatData(t), migrate |-> FALSE]
       ELSE [fail |-> FALSE, text |-> t, migrate |-> FALSE]

\* The first half of readThreadsIndex / readThreadFile, after fs.readFile
\* returned t: does decoding throw, the decoded text, and whether the file is
\* written back in the build's format.
ReadPlan(b, t, root) ==
  IF b = "encryption"
  THEN IF isEncrypted(t)
       THEN IF DecryptOk(t, root)
            THEN [fail |-> FALSE, text |-> decryptChatData(t, root), migrate |-> FALSE]
            ELSE [fail |-> TRUE, text |-> t, migrate |-> FALSE]
       ELSE [fail |-> FALSE, text |-> t, migrate |-> TRUE]
  ELSE IF isEncoded(t)
       THEN [fail |-> FALSE, text |-> decodeChatData(t), migrate |-> FALSE]
       ELSE [fail |-> FALSE, text |-> t, migrate |-> TRUE]

(******************* the codecs on characters and bytes *******************)
\* The codecs again, computed on the text itself: a text is a sequence of
\* characters, a Buffer a sequence of bytes.
\* The printable ASCII characters in the order of their codes, 32 to 126;
\* "GRAVE" is the grave accent, code 96
Ascii ==
  << " ", "!", "\"", "#", "$", "%", "&", "'", "(", ")", "*", "+",
     ",", "-", ".", "/", "0", "1", "2", "3", "4", "5", "6", "7",
     "8", "9", ":", ";", "<", "=", ">", "?", "@", "A", "B", "C",
     "D", "E", "F", "G", "H", "I", "J", "K", "L", "M", "N", "O",
     "P", "Q", "R", "S", "T", "U", "V", "W", "X", "Y", "Z", "[",
     "\\", "]", "^", "_", "GRAVE", "a", "b", "c", "d", "e", "f", "g",
     "h", "i", "j", "k", "l", "m", "n", "o", "p", "q", "r", "s",
     "t", "u", "v", "w", "x", "y", "z", "{", "|", "}", "~" >>

\* U+00E9, the character of two bytes (C3 A9) among the texts
Eacute == "e-acute"
\* U+FFFD, what toString('utf8') gives for bytes that are no character here
Replacement == "U+FFFD"

\* the characters of code 9 to 13; "VT" is the vertical tab
ControlChars == <<"\t", "\n", "VT", "\f", "\r">>

CharCode(ch) ==
  IF \E i \in 1..5 : ControlChars[i] = ch
  THEN 8 + (CHOOSE i \in 1..5 : ControlChars[i] = ch)
  ELSE 31 + (CHOOSE i \in 1..95 : Ascii[i] = ch)

\* Buffer.from(data, 'utf8')
RECURSIVE Utf8Bytes(_)
Utf8Bytes(s) ==
  IF s = <<>> THEN <<>>
  ELSE (IF s[1] = Eacute THEN <<195, 169>>
        ELSE IF s[1] = Replacement THEN <<239, 191, 189>>
        ELSE <<CharCode(s[1])>>) \o Utf8Bytes(Tail(s))

Utf8Text_Bytewise(b) ==
  [i \in 1..Len(b) |-> IF b[i] \in 32..126 THEN Ascii[b[i] - 31] ELSE Replacement]

\* buffer.toString('utf8')
RECURSIVE Utf8Text(_)
Utf8Text(b) ==
  IF b = <<>> THEN <<>>
  ELSE IF b[1] \in 32..126 THEN <<Ascii[b[1] - 31]>> \o Utf8Text(Tail(b))
  ELSE IF b[1] \in 9..13 THEN <<ControlChars[b[1] - 8]>> \o Utf8Text(Tail(b))
  ELSE IF Len(b) >= 2 /\ b[1] = 195 /\ b[2] = 169
       THEN <<Eacute>> \o Utf8Text(SubSeq(b, 3, Len(b)))
  ELSE <<Replacement>> \o Utf8Text(Tail(b))

Base64Chars ==
  << "A", "B", "C", "D", "E", "F", "G", "H", "I", "J", "K", "L", "M",
     "N", "O", "P", "Q", "R", "S", "T", "U", "V", "W", "X", "Y", "Z",
     "a", "b", "c", "d", "e", "f", "g", "h", "i", "j", "k", "l", "m",
     "n", "o", "p", "q", "r", "s", "t", "u", "v", "w", "x", "y", "z",
     "0", "1", "2", "3", "4", "5", "6", "7", "8", "9", "+", "/" >>

Base64Char(n) == Base64Chars[n + 1]

\* the value of a base64 digit, of the standard or of the URL-safe alphabet;
\* -1 for every other character
Sextet(ch) ==
  IF ch = "-" THEN 62
  ELSE IF ch = "_" THEN 63
  ELSE IF \E i \in 1..64 : Base64Chars[i] = ch
       THEN (CHOOSE i \in 1..64 : Base64Chars[i] = ch) - 1
  ELSE -1

\* buffer.toString('base64')
RECURSIVE ToBase64(_)
ToBase64(b) ==
  IF b = <<>> THEN <<>>
  ELSE IF Len(b) = 1
       THEN << Base64Char(b[1] \div 4), Base64Char((b[1] % 4) * 16), "=", "=" >>
  ELSE IF Len(b) = 2
       THEN << Base64Char(b[1] \div 4),
               Base64Char((b[1] % 4) * 16 + b[2] \div 16),
               Base64Char((b[2] % 16) * 4), "=" >>
  ELSE << Base64Char(b[1] \div 4),
          Base64Char((b[1] % 4) * 16 + b[2] \div 16),
          Base64Char((b[2] % 16) * 4 + b[3] \div 64),
          Base64Char(b[3] % 64) >> \o ToBase64(SubSeq(b, 4, Len(b)))

\* the digits of a base64 text: decoding stops at the first '=' and skips
\* every other character that is no digit (white space, ':' ...)
RECURSIVE Sextets(_)
Sextets(text) ==
  IF text = <<>> \/ text[1] = "=" THEN <<>>
  ELSE IF Sextet(text[1]) < 0 THEN Sextets(Tail(text))
  ELSE <<Sextet(text[1])>> \o Sextets(Tail(text))

RECURSIVE SextetsToBytes(_)
SextetsToBytes(d) ==
  IF Len(d) < 2 THEN <<>>
  ELSE IF Len(d) = 2 THEN << d[1] * 4 + d[2] \div 16 >>
  ELSE IF Len(d) = 3
       THEN << d[1] * 4 + d[2] \div 16, (d[2] % 16) * 16 + d[3] \div 4 >>
  ELSE << d[1] * 4 + d[2] \div 16, (d[2] % 16) * 16 + d[3] \div 4,
          (d[3] % 4) * 64 + d[4] >> \o SextetsToBytes(SubSeq(d, 5, Len(d)))

\* Buffer.from(text, 'base64'): never throws
FromBase64(text) == SextetsToBytes(Sextets(text))

\* data.split(':')
RECURSIVE Split(_, _)
Split(s, sep) ==
  IF \E i \in 1..Len(s) : s[i] = sep
  THEN LET i == MinOf({j \in 1..Len(s) : s[j] = sep})
       IN <<SubSeq(s, 1, i - 1)>> \o Split(SubSeq(s, i + 1, Len(s)), sep)
  ELSE <<s>>

\* s.startsWith(ch)
StartsWith(s, ch) == s # <<>> /\ s[1] = ch

RECURSIVE SumOf(_)
SumOf(b) == IF b = <<>> THEN 0 ELSE b[1] + SumOf(Tail(b))

\* what a function gives: the value it returns, or nothing when it throws
Thrown == [ok |-> FALSE]
Value(v) == [ok |-> TRUE, value |-> v]

\* no function was applied yet
NotApplied == [fn |-> "none", arg |-> <<>>, out |-> <<>>]

encodeChatDataText(data) == ToBase64(Utf8Bytes(data))

\* the try never catches: Buffer.from(_, 'base64') does not throw
decodeChatDataText(encodedData) == Value(Utf8Text(FromBase64(encodedData)))

isEncodedText_BraceFirst(data) ==
  IF StartsWith(Trim(data), "{") \/ StartsWith(Trim(data), "[") THEN FALSE
  ELSE IF Len(Split(data, ":")) = 3 THEN TRUE
  ELSE LET decoded == Utf8Text(FromBase64(data))
       IN StartsWith(Trim(decoded), "{") \/ StartsWith(Trim(decoded), "[")

\* isEncoded: the order of its three tests
isEncodedText(data) ==
  IF Len(Split(data, ":")) = 3 THEN TRUE
  ELSE IF StartsWith(Trim(data), "{") \/ StartsWith(Trim(data), "[") THEN FALSE
  ELSE LET decoded == Utf8Text(FromBase64(data))
       IN StartsWith(Trim(decoded), "{") \/ StartsWith(Trim(decoded), "[")

\* parts.every(...) is true: Buffer.from(part, 'base64') does not throw
isEncryptedText(data) == Len(Split(data, ":")) = 3

\* AES-256-GCM in small: the key is one byte, the cipher adds a key stream
\* that depends on key, iv and position, the tag is a polynomial over iv and
\* ciphertext and their lengths whose coefficients depend on the key.
IvLength == 16
TagLength == 16

\* pbkdf2Sync(projectRoot, ...) twice: a function of the root's bytes alone
RECURSIVE Pbkdf2(_, _)
Pbkdf2(bytes, h) ==
  IF bytes = <<>> THEN h ELSE Pbkdf2(Tail(bytes), (h * 31 + bytes[1]) % 251)

deriveKeyText_Shared(projectRoot) == Pbkdf2(<<>>, 7)

deriveKeyText(projectRoot) == Pbkdf2(Utf8Bytes(projectRoot), 7)

\* randomBytes(IV_LENGTH): one of the values it may give
RandomBytes(seed) == [i \in 1..IvLength |-> (seed * (i + 2) * 37) % 256]

KeyStream(key, iv, i) == (key * 3 + SumOf(iv) + i * 5) % 256

\* cipher.update(...) + cipher.final(...), on bytes
GcmEncrypt(key, iv, plain) ==
  [i \in 1..Len(plain) |-> (plain[i] + KeyStream(key, iv, i)) % 256]

GcmDecrypt(key, iv, encrypted) ==
  [i \in 1..Len(encrypted) |->
     (encrypted[i] + 256 - KeyStream(key, iv, i)) % 256]

\* cipher.getAuthTag()
GcmTag(key, iv, encrypted) ==
  LET data == iv \o encrypted
      Term(i, j) == data[i] * (i + j + key)
      RECURSIVE Poly(_, _)
      Poly(i, j) == IF i = 0 THEN 0 ELSE Term(i, j) + Poly(i - 1, j)
  IN [j \in 1..TagLength |->
        ((key * j + Len(iv) * 3 + Len(encrypted) * 5
            + Poly(Len(data), j)) % 257) % 256]

\* createDecipheriv is called without the authTagLength option: setAuthTag
\* takes a tag of any length that GCM allows, and final() compares that many
\* bytes
GcmTagLengths == {4, 8, 12, 13, 14, 15, 16}

encryptChatDataText(data, projectRoot, iv) ==
  LET key == deriveKeyText(projectRoot)
      encrypted == GcmEncrypt(key, iv, Utf8Bytes(data))
      tag == GcmTag(key, iv, encrypted)
  IN ToBase64(iv) \o <<":">> \o ToBase64(tag) \o <<":">> \o ToBase64(encrypted)

decryptChatDataText(encryptedData, projectRoot) ==
  LET parts == Split(encryptedData, ":")
      iv == FromBase64(parts[1])
      tag == FromBase64(parts[2])
      encrypted == FromBase64(parts[3])
      key == deriveKeyText(projectRoot)
  IN IF Len(parts) # 3 THEN Thrown
     ELSE IF iv = <<>> THEN Thrown
     ELSE IF Len(tag) \notin GcmTagLengths THEN Thrown
     ELSE IF SubSeq(GcmTag(key, iv, encrypted), 1, Len(tag)) # tag THEN Thrown
     ELSE Value(Utf8Text(GcmDecrypt(key, iv, encrypted)))

(******************************* documents ********************************)
None == <<>>
Some(x) == <<x>>

NoThread == [id |-> NoId]

IndexPath(root) == <<root, "chat", "threads.json">>
ThreadPath(root, id) == <<root, "chat", "thread", id>>
ChatDirPath(root) == <<root, "chat">>

\* index.threads.sort((a, b) => b.updatedAt - a.updatedAt), a stable sort
RECURSIVE SortThreads_Asc(_)
SortThreads_Asc(s) ==
  IF s = <<>> THEN <<>>
  ELSE LET x == s[Len(s)]
           r == SortThreads_Asc(SubSeq(s, 1, Len(s) - 1))
           before == {i \in 1..Len(r) : r[i].updatedAt <= x.updatedAt}
           n == Cardinality(before)
       IN SubSeq(r, 1, n) \o <<x>> \o SubSeq(r, n + 1, Len(r))

RECURSIVE SortThreads(_)
SortThreads(s) ==
  IF s = <<>> THEN <<>>
  ELSE LET x == s[Len(s)]
           r == SortThreads(SubSeq(s, 1, Len(s) - 1))
           n == Cardinality({i \in 1..Len(r) : r[i].updatedAt >= x.updatedAt})
       IN SubSeq(r, 1, n) \o <<x>> \o SubSeq(r, n + 1, Len(r))

\* index.threads.find(t => t.id === threadId): the first match, or none
FindSummary(threads, id) ==
  LET hits == {i \in 1..Len(threads) : threads[i].id = id}
  IN IF hits = {} THEN 0 ELSE MinOf(hits)

\* index.threads.filter(t => t.id !== threadId)
RemoveSummary(threads, id) == SelectSeq(threads, LAMBDA s : s.id # id)

\* chat-widget: threadSummaries.filter(t => t.status === 'active')
ActiveThreads(summaries) == SelectSeq(summaries, LAMBDA s : s.status = "active")


(****************************** the calls *********************************)
Ops == {"listThreads", "createThread", "getThread", "appendMessage",
        "renameThread", "archiveThread", "deleteThread", "clearMessages"}

\* operations that begin with readThreadFile on the id they are given
ThreadOps == {"getThread", "appendMessage", "renameThread", "archiveThread",
              "clearMessages"}

\* operations that read a thread, change it and write thread file and index
UpdateOps == ThreadOps \ {"getThread"}

NoPre == [dir |-> FALSE, index |-> Missing, threads |-> [i \in ThreadIds |-> Missing]]

IdleCall ==
  [op |-> "idle", pc |-> "idle", ip |-> 0, root |-> NoRoot, id |-> NoId,
   msg |-> None, title |-> <<>>, thread |-> NoThread, index |-> <<>>,
   text |-> Missing, res |-> "none", err |-> <<>>, ret |-> <<>>,
   \* The history of the call, read by the properties only.
   \*   pre: the files when the call began (kept when calls do not overlap)
   \*   base: the thread readThreadFile returned
   \*   sawMissing: readThreadFile found no thread file
   \*   indexWas: what fs.readFile of threads.json gave: "missing", "error"
   \*             (an I/O error), "nojson" (bytes that decode to no JSON), "json"
   \*   wroteThread, wroteIndex: writeThreadFile (or the unlink of
   \*             deleteThread) and writeThreadsIndex have taken place
   \*   touched: the call has written or removed a file or made the directory
   \*   lost: the slots of the calls that wrote the thread file between this
   \*             call's read and its write; overwritten: how many such writes
   \*   latest: the thread file is as this call's writeThreadFile left it
   \*   threadWas: what fs.readFile of the thread file gave, as indexWas
   \*   backFailed: a write-back of a file in an older format failed
   \*   dropFailed: the deletion of a file that did not parse failed
   \*   meddled: a file was overwritten from outside since the call began
   \*   unlinked: how fs.unlink of the thread file ended: "removed", "missing"
   \*             (ENOENT), "failed" (another error)
   pre |-> NoPre, base |-> NoThread, sawMissing |-> FALSE, indexWas |-> "unread",
   wroteThread |-> FALSE, wroteIndex |-> FALSE, touched |-> FALSE,
   lost |-> {}, overwritten |-> 0, latest |-> FALSE,
   threadWas |-> "unread", backFailed |-> FALSE, dropFailed |-> FALSE,
   meddled |-> FALSE, unlinked |-> "no"]

\* The file operations of each public operation, in the order of its awaits
Steps_IndexFirst(op) ==
  CASE op = "listThreads" -> <<"readIndex">>
    [] op = "createThread" -> <<"mkdir", "readIndex", "writeIndex", "writeThread">>
    [] op = "getThread" -> <<"readThread">>
    [] op \in UpdateOps -> <<"readThread", "readIndex", "writeIndex", "writeThread">>
    [] op = "deleteThread" -> <<"readIndex", "writeIndex", "unlinkThread">>

Steps_DeleteFileFirst(op) ==
  CASE op = "listThreads" -> <<"readIndex">>
    [] op = "createThread" -> <<"mkdir", "writeThread", "readIndex", "writeIndex">>
    [] op = "getThread" -> <<"readThread">>
    [] op \in UpdateOps -> <<"readThread", "readIndex", "writeThread", "writeIndex">>
    [] op = "deleteThread" -> <<"unlinkThread", "readIndex", "writeIndex">>

Steps_PersistThenLoad(op) ==
  CASE op = "listThreads" -> <<"readIndex">>
    [] op = "createThread" -> <<"mkdir", "writeThread", "readIndex", "writeIndex">>
    [] op = "getThread" -> <<"readThread">>
    [] op \in UpdateOps -> <<"readThread", "writeThread", "readIndex", "writeIndex">>
    [] op = "deleteThread" -> <<"readIndex", "writeIndex", "unlinkThread">>

Steps(op) ==
  CASE op = "listThreads" -> <<"readIndex">>
    [] op = "createThread" -> <<"mkdir", "writeThread", "readIndex", "writeIndex">>
    [] op = "getThread" -> <<"readThread">>
    [] op \in UpdateOps -> <<"readThread", "readIndex", "writeThread", "writeIndex">>
    [] op = "deleteThread" -> <<"readIndex", "writeIndex", "unlinkThread">>

ReturnsThread(op) == op \in {"createThread", "appendMessage", "clearMessages"}

\* the call goes on to its next file operation, or resolves
Advance(cr) ==
  IF cr.ip = Len(Steps(cr.op))
  THEN [cr EXCEPT !.pc = "done", !.res = "ok",
                  !.ret = IF ReturnsThread(cr.op) THEN <<cr.thread>> ELSE @]
  ELSE [cr EXCEPT !.ip = @ + 1, !.pc = Steps(cr.op)[cr.ip + 1]]

\* the call rejects with a ChatHistoryError
Reject(cr, code, data) == [cr EXCEPT !.pc = "done", !.res = code, !.err = data]

Faults == IF env.faults THEN {FALSE, TRUE} ELSE {FALSE}

\* new Date(): the clock does not run backwards
NowSet == {clock} \cup (IF left > 0 THEN {clock + 1} ELSE {})

InFlight(c) == calls[c].op # "idle" /\ calls[c].pc # "done"

(************************* what is on disk, decoded ***********************)
\* The thread a read of thread-<id>.json yields now, as <<thread>>, or <<>>
DiskThread(root, id) ==
  LET t == threadFiles[id]
      plan == ReadPlan(build, t, root)
  IN IF t = Missing \/ plan.fail \/ ~JsonParseOk(plan.text) THEN <<>>
     ELSE <<JsonParse(plan.text)>>

\* The summaries a read of threads.json yields now; none when it does not read
DiskIndexOf(file, root) ==
  LET plan == ReadPlan(build, file, root)
  IN IF file = Missing \/ plan.fail \/ ~JsonParseOk(plan.text) THEN <<>>
     ELSE IF ~HasThreads(JsonParse(plan.text)) THEN <<>>
     ELSE JsonParse(plan.text).threads

DiskIndex(root) == DiskIndexOf(indexFile, root)

DiskThreadOf(file, root) ==
  LET plan == ReadPlan(build, file, root)
  IN IF file = Missing \/ plan.fail \/ ~JsonParseOk(plan.text) THEN <<>>
     ELSE <<JsonParse(plan.text)>>

\* what listThreads(root) returns on the files as they are
ListThreadsNow(root) == SortThreads(DiskIndex(root))

\* how getThread(root, id) ends on the files as they are
GetThreadNow(root, id) ==
  IF threadFiles[id] = Missing THEN "NotFound"
  ELSE IF DiskThread(root, id) = <<>> THEN "ReadFailed"
  ELSE "ok"

(**************************** starting a call *****************************)
\* A call takes the first slot whose call has resolved or rejected (the
\* slots are alike); without overlap it waits for the call before it
Free(c) == calls[c].op = "idle" \/ calls[c].pc = "done"

CanBegin(c) ==
  /\ left > 0
  /\ Free(c)
  /\ c = "a" \/ ~Free("a")
  /\ env.concurrent \/ \A d \in Slots : Free(d)

Begin(c, op, root, id, msg, title) ==
  /\ CanBegin(c)
  /\ left' = left - 1
  /\ calls' = [calls EXCEPT ![c] =
        [IdleCall EXCEPT !.op = op, !.ip = 1, !.pc = Steps(op)[1],
                         !.root = root, !.id = id, !.msg = msg, !.title = title,
                         !.pre = IF env.concurrent THEN NoPre
                                 ELSE [dir |-> chatDir, index |-> indexFile,
                                       threads |-> threadFiles]]]
  /\ UNCHANGED <<widget, applied, build, env, clock, usedIds, chatDir, indexFile, threadFiles>>

\* resolveProjectRoot without a root: the configured sketch directory, or
\* InvalidProjectRoot
CallListThreads(c) ==
  \E r \in Roots \cup {NoRoot}, cfg \in Roots \cup {NoRoot} :
    IF r # NoRoot THEN cfg = NoRoot /\ Begin(c, "listThreads", r, NoId, None, <<>>)
    ELSE IF cfg # NoRoot THEN Begin(c, "listThreads", cfg, NoId, None, <<>>)
    ELSE /\ CanBegin(c)
         /\ left' = left - 1
         /\ calls' = [calls EXCEPT ![c] =
               Reject([IdleCall EXCEPT !.op = "listThreads"],
                      "InvalidProjectRoot", <<"unknown">>)]
         /\ UNCHANGED <<widget, applied, build, env, clock, usedIds, chatDir, indexFile, threadFiles>>

CallCreateThread(c) ==
  \E r \in Roots, m \in {None} \cup {Some(x) : x \in Messages} :
    /\ Cardinality(usedIds)
         + Cardinality({d \in Slots : calls[d].op = "createThread" /\ calls[d].pc = "mkdir"})
         < Cardinality(ThreadIds)
    /\ Begin(c, "createThread", r, NoId, m, <<>>)

CallGetThread(c) ==
  \E r \in Roots, id \in ThreadIds : Begin(c, "getThread", r, id, None, <<>>)

CallAppendMessage(c) ==
  \E r \in Roots, id \in ThreadIds, m \in Messages :
    Begin(c, "appendMessage", r, id, Some(m), <<>>)

CallRenameThread(c) ==
  \E r \in Roots, id \in ThreadIds, t \in Titles :
    Begin(c, "renameThread", r, id, None, t)

CallArchiveThread(c) ==
  \E r \in Roots, id \in ThreadIds : Begin(c, "archiveThread", r, id, None, <<>>)

CallDeleteThread(c) ==
  \E r \in Roots, id \in ThreadIds : Begin(c, "deleteThread", r, id, None, <<>>)

\* clearMessages exists in the encoding build only
CallClearMessages(c) ==
  /\ build = "encoding"
  /\ \E r \in Roots, id \in ThreadIds : Begin(c, "clearMessages", r, id, None, <<>>)

\* The project directory was renamed or moved, its files with it: the calls
\* come with the new root
MovedRoots == {"r2"}

CallListThreadsMoved(c) ==
  \E r \in MovedRoots : Begin(c, "listThreads", r, NoId, None, <<>>)

CallGetThreadMoved(c) ==
  \E r \in MovedRoots, id \in ThreadIds : Begin(c, "getThread", r, id, None, <<>>)

CallAppendMessageMoved(c) ==
  \E r \in MovedRoots, id \in ThreadIds, m \in Messages :
    Begin(c, "appendMessage", r, id, Some(m), <<>>)

(********************* the synchronous code of a call *********************)
\* createThread, after mkdir: the new thread
NewThread(root, id, msg, now) ==
  [projectRoot |-> root, id |-> id,
   title |-> IF msg # None /\ msg[1].role = "user" THEN generateTitle(msg[1])
             ELSE DefaultTitle,
   createdAt |-> now, updatedAt |-> now, status |-> "active",
   messages |-> IF msg # None THEN <<msg[1]>> ELSE <<>>]

\* createThread, after readThreadsIndex: the summary pushed to the index
NewSummary(thread, msg) ==
  [id |-> thread.id, title |-> thread.title, createdAt |-> thread.createdAt,
   updatedAt |-> thread.updatedAt, status |-> "active",
   lastMessagePreview |-> IF msg # None THEN Some(Preview(msg[1].content)) ELSE None]

\* what an operation does to the thread it has read
ChangeThread_KeepTime(cr, th, now) ==
  CASE cr.op = "appendMessage" -> [th EXCEPT !.messages = Append(@, cr.msg[1])]
    [] cr.op = "renameThread" -> [th EXCEPT !.title = cr.title]
    [] cr.op = "archiveThread" -> [th EXCEPT !.status = "archived"]
    [] cr.op = "clearMessages" -> [th EXCEPT !.messages = <<>>]

ChangeThread_Prepend(cr, th, now) ==
  CASE cr.op = "appendMessage" ->
         [th EXCEPT !.messages = <<cr.msg[1]>> \o @, !.updatedAt = now]
    [] cr.op = "renameThread" -> [th EXCEPT !.title = cr.title, !.updatedAt = now]
    [] cr.op = "archiveThread" -> [th EXCEPT !.status = "archived", !.updatedAt = now]
    [] cr.op = "clearMessages" -> [th EXCEPT !.messages = <<>>, !.updatedAt = now]

ChangeThread_ArchiveDrops(cr, th, now) ==
  CASE cr.op = "appendMessage" ->
         [th EXCEPT !.messages = Append(@, cr.msg[1]), !.updatedAt = now]
    [] cr.op = "renameThread" -> [th EXCEPT !.title = cr.title, !.updatedAt = now]
    [] cr.op = "archiveThread" ->
         [th EXCEPT !.status = "archived", !.messages = <<>>, !.updatedAt = now]
    [] cr.op = "clearMessages" -> [th EXCEPT !.messages = <<>>, !.updatedAt = now]

ChangeThread(cr, th, now) ==
  CASE cr.op = "appendMessage" ->
         [th EXCEPT !.messages = Append(@, cr.msg[1]), !.updatedAt = now]
    [] cr.op = "renameThread" -> [th EXCEPT !.title = cr.title, !.updatedAt = now]
    [] cr.op = "archiveThread" -> [th EXCEPT !.status = "archived", !.updatedAt = now]
    [] cr.op = "clearMessages" -> [th EXCEPT !.messages = <<>>, !.updatedAt = now]

ChangeSummary_KeepPreview(cr, s) ==
  CASE cr.op = "appendMessage" ->
         [s EXCEPT !.updatedAt = cr.thread.updatedAt,
                   !.lastMessagePreview = Some(Preview(cr.msg[1].content))]
    [] cr.op = "renameThread" ->
         [s EXCEPT !.title = cr.title, !.updatedAt = cr.thread.updatedAt]
    [] cr.op = "archiveThread" ->
         [s EXCEPT !.status = "archived", !.updatedAt = cr.thread.updatedAt]
    [] cr.op = "clearMessages" -> [s EXCEPT !.updatedAt = cr.thread.updatedAt]

\* what an operation does to the summary it has found in the index
ChangeSummary(cr, s) ==
  CASE cr.op = "appendMessage" ->
         [s EXCEPT !.updatedAt = cr.thread.updatedAt,
                   !.lastMessagePreview = Some(Preview(cr.msg[1].content))]
    [] cr.op = "renameThread" ->
         [s EXCEPT !.title = cr.title, !.updatedAt = cr.thread.updatedAt]
    [] cr.op = "archiveThread" ->
         [s EXCEPT !.status = "archived", !.updatedAt = cr.thread.updatedAt]
    [] cr.op = "clearMessages" ->
         [s EXCEPT !.updatedAt = cr.thread.updatedAt, !.lastMessagePreview = None]

\* the code between readThreadFile resolving with th and the next await
OnThread(cr, th, now) ==
  IF cr.op = "getThread" THEN Advance([cr EXCEPT !.ret = <<th>>])
  ELSE Advance([cr EXCEPT !.thread = ChangeThread(cr, th, now), !.base = th])

\* the code between readThreadsIndex resolving with idx and the next await
OnIndex_DeleteAll(cr, idx) ==
  CASE cr.op = "listThreads" -> Advance([cr EXCEPT !.ret = SortThreads(idx)])
    [] cr.op = "createThread" ->
         Advance([cr EXCEPT !.index = Append(idx, NewSummary(cr.thread, cr.msg))])
    [] cr.op = "deleteThread" -> Advance([cr EXCEPT !.index = <<>>])
    [] cr.op \in UpdateOps ->
         LET i == FindSummary(idx, cr.id)
         IN Advance([cr EXCEPT !.index =
                        IF i = 0 THEN idx
                        ELSE [idx EXCEPT ![i] = ChangeSummary(cr, idx[i])]])

OnIndex_CreateReplaces(cr, idx) ==
  CASE cr.op = "listThreads" -> Advance([cr EXCEPT !.ret = SortThreads(idx)])
    [] cr.op = "createThread" ->
         Advance([cr EXCEPT !.index = <<NewSummary(cr.thread, cr.msg)>>])
    [] cr.op = "deleteThread" ->
         Advance([cr EXCEPT !.index = RemoveSummary(idx, cr.id)])
    [] cr.op \in UpdateOps ->
         LET i == FindSummary(idx, cr.id)
         IN Advance([cr EXCEPT !.index =
                        IF i = 0 THEN idx
                        ELSE [idx EXCEPT ![i] = ChangeSummary(cr, idx[i])]])

OnIndex_Upsert(cr, idx) ==
  CASE cr.op = "listThreads" -> Advance([cr EXCEPT !.ret = SortThreads(idx)])
    [] cr.op = "createThread" ->
         Advance([cr EXCEPT !.index = Append(idx, NewSummary(cr.thread, cr.msg))])
    [] cr.op = "deleteThread" ->
         Advance([cr EXCEPT !.index = RemoveSummary(idx, cr.id)])
    [] cr.op \in UpdateOps ->
         LET i == FindSummary(idx, cr.id)
         IN Advance([cr EXCEPT !.index =
                        IF i = 0
                        THEN Append(idx, ChangeSummary(cr, NewSummary(cr.thread, None)))
                        ELSE [idx EXCEPT ![i] = ChangeSummary(cr, idx[i])]])

OnIndex(cr, idx) ==
  CASE cr.op = "listThreads" -> Advance([cr EXCEPT !.ret = SortThreads(idx)])
    [] cr.op = "createThread" ->
         Advance([cr EXCEPT !.index = Append(idx, NewSummary(cr.thread, cr.msg))])
    [] cr.op = "deleteThread" ->
         Advance([cr EXCEPT !.index = RemoveSummary(idx, cr.id)])
    [] cr.op \in UpdateOps ->
         LET i == FindSummary(idx, cr.id)
         IN Advance([cr EXCEPT !.index =
                        IF i = 0 THEN idx
                        ELSE [idx EXCEPT ![i] = ChangeSummary(cr, idx[i])]])

ParseThread_KeepFile(cr, text, now) ==
  IF JsonParseOk(text) THEN OnThread(cr, JsonParse(text), now)
  ELSE Reject(cr, "ReadFailed", ThreadPath(cr.root, cr.id))

\* JSON.parse of the decoded thread text and what follows it
ParseThread(cr, text, now) ==
  IF JsonParseOk(text) THEN OnThread(cr, JsonParse(text), now)
  ELSE IF build = "encryption"
       THEN Reject(cr, "ReadFailed", ThreadPath(cr.root, cr.id))
       ELSE [cr EXCEPT !.pc = "dropThread"]

\* JSON.parse of the decoded index text and what follows it
\* The parsed value is used as it is: index.threads.sort, .push, .filter
\* and .find throw a TypeError when it has no threads.
ParseIndex(cr, text) ==
  IF JsonParseOk(text) /\ HasThreads(JsonParse(text))
  THEN OnIndex(cr, JsonParse(text).threads)
  ELSE IF JsonParseOk(text) THEN Reject(cr, "TypeError", <<>>)
  ELSE IF build = "encryption"
       THEN Reject(cr, "ReadFailed", IndexPath(cr.root))
       ELSE [cr EXCEPT !.pc = "dropIndex"]

\* the result of readThreadFile when fs.readFile fails with ENOENT
ThreadMissing_Fabricate(cr, now) ==
  OnThread([cr EXCEPT !.sawMissing = TRUE],
           NewThread(cr.root, cr.id, None, now), now)

ThreadMissing(cr, now) ==
  Reject([cr EXCEPT !.sawMissing = TRUE], "NotFound", <<cr.id>>)

\* the result of readThreadsIndex when fs.readFile fails with another error
\* than ENOENT: no message of fs contains 'Failed to decode' or 'Failed to read'
IndexUnreadable(cr) == Reject(cr, "ReadFailed", IndexPath(cr.root))

\* the other calls after call c changed thread-<id>.json
Others(c, id) ==
  [d \in Slots |->
     IF d # c /\ calls[d].op # "idle" /\ calls[d].id = id
     THEN LET pending == calls[d].base # NoThread /\ ~calls[d].wroteThread IN
          [calls[d] EXCEPT !.latest = FALSE,
                           !.lost = IF pending THEN @ \cup {c} ELSE @,
                           !.overwritten = IF pending THEN @ + 1 ELSE @]
     ELSE calls[d]]

(********************** the file operations of a call *********************)
\* randomUUID(): an id never handed out before (ids are opaque: one of them)
FreshId == CHOOSE i \in ThreadIds \ usedIds : TRUE

\* ensureChatHistoryDir, then the id, the time and the thread of createThread
EnsureChatHistoryDir(c) ==
  LET cr == calls[c] IN
  /\ cr.pc = "mkdir"
  /\ \E f \in Faults, id \in {FreshId}, now \in NowSet :
       IF f
       THEN /\ calls' = [calls EXCEPT ![c] =
                  Reject(cr, "WriteFailed", ChatDirPath(cr.root))]
            /\ UNCHANGED <<clock, usedIds, chatDir, left>>
       ELSE /\ chatDir' = TRUE
            /\ left' = left - (now - clock)
            /\ usedIds' = usedIds \cup {id}
            /\ clock' = now
            /\ calls' = [calls EXCEPT ![c] =
                  Advance([cr EXCEPT !.id = id, !.touched = TRUE,
                                     !.thread = NewThread(cr.root, id, cr.msg, now)])]
  /\ UNCHANGED <<widget, applied, build, env, indexFile, threadFiles>>

\* readThreadFile: fs.readFile, decoding, and parsing when nothing is written back
ReadThreadFile(c) ==
  LET t == threadFiles[calls[c].id]
      plan == ReadPlan(build, t, calls[c].root)
  IN
  /\ calls[c].pc = "readThread"
  /\ \E f \in Faults, now \in NowSet :
       /\ (t = Missing => ~f)
       /\ LET cr == [calls[c] EXCEPT !.threadWas =
                       IF t = Missing THEN "missing"
                       ELSE IF f THEN "error"
                       ELSE IF NoJson(t) THEN "nojson" ELSE "json"]
              next == IF t = Missing THEN ThreadMissing(cr, now)
                      ELSE IF f \/ plan.fail
                      THEN Reject(cr, "ReadFailed", ThreadPath(cr.root, cr.id))
                      ELSE IF plan.migrate
                      THEN [cr EXCEPT !.pc = "migrateThread", !.text = plan.text]
                      ELSE ParseThread(cr, plan.text, now)
          IN /\ calls' = [calls EXCEPT ![c] = next]
             /\ clock' = IF next.base # NoThread THEN now ELSE clock
             /\ left' = left - (clock' - clock)
  /\ UNCHANGED <<widget, applied, build, env, usedIds, chatDir, indexFile, threadFiles>>

AfterWriteBack_Throws(wrote, parsed, thrown) == IF wrote THEN parsed ELSE thrown

\* the try around the write-back: its catch logs the error, and the read goes
\* on to parse the text it has
AfterWriteBack(wrote, parsed, thrown) == parsed

\* readThreadFile: the write-back of a file that was not in the build's format
\* (a failure is logged and ignored), then parsing
MigrateThreadFile(c) ==
  LET cr == calls[c] IN
  /\ cr.pc = "migrateThread"
  /\ \E f \in Faults, now \in NowSet :
       LET wrote == ~f /\ chatDir
           seen == [cr EXCEPT !.touched = @ \/ wrote, !.backFailed = @ \/ ~wrote]
           next == AfterWriteBack(wrote, ParseThread(seen, cr.text, now),
                      Reject(seen, "WriteFailed", ThreadPath(cr.root, cr.id)))
       IN
       /\ IF ~wrote
          THEN /\ threadFiles' = threadFiles
               /\ calls' = [calls EXCEPT ![c] = next]
          ELSE /\ threadFiles' = [threadFiles EXCEPT ![cr.id] =
                                     EncodeFor(build, cr.text, cr.root)]
               /\ calls' = [Others(c, cr.id) EXCEPT ![c] = next]
       /\ clock' = IF next.base # NoThread THEN now ELSE clock
       /\ left' = left - (clock' - clock)
  /\ UNCHANGED <<widget, applied, build, env, usedIds, chatDir, indexFile>>

\* readThreadFile of the encoding build: the file that did not parse is
\* deleted (a failure is logged and ignored) and ReadFailed is thrown
DropThreadFile(c) ==
  LET cr == calls[c] IN
  /\ cr.pc = "dropThread"
  /\ \E f \in Faults :
       IF f
       THEN /\ threadFiles' = threadFiles
            /\ calls' = [calls EXCEPT ![c] =
                  Reject([cr EXCEPT !.dropFailed = TRUE], "ReadFailed",
                         ThreadPath(cr.root, cr.id))]
       ELSE /\ threadFiles' = [threadFiles EXCEPT ![cr.id] = Missing]
            /\ calls' = [Others(c, cr.id) EXCEPT ![c] =
                  Reject([cr EXCEPT !.touched = TRUE], "ReadFailed",
                         ThreadPath(cr.root, cr.id))]
  /\ UNCHANGED <<widget, applied, build, env, clock, usedIds, chatDir, indexFile, left>>

\* readThreadsIndex: fs.readFile, decoding, and parsing when nothing is
\* written back
ReadThreadsIndex(c) ==
  LET t == indexFile
      plan == ReadPlan(build, t, calls[c].root)
  IN
  /\ calls[c].pc = "readIndex"
  /\ \E f \in Faults :
       /\ (t = Missing => ~f)
       /\ calls' = [calls EXCEPT ![c] =
             LET cr == [calls[c] EXCEPT !.indexWas =
                           IF t = Missing THEN "missing"
                           ELSE IF f THEN "error"
                           ELSE IF NoJson(t) THEN "nojson" ELSE "json"]
             IN
             IF t = Missing THEN OnIndex(cr, <<>>)
             ELSE IF f THEN IndexUnreadable(cr)
             ELSE IF plan.fail THEN Reject(cr, "ReadFailed", IndexPath(cr.root))
             ELSE IF plan.migrate
             THEN [cr EXCEPT !.pc = "migrateIndex", !.text = plan.text]
             ELSE ParseIndex(cr, plan.text)]
  /\ UNCHANGED <<widget, applied, build, env, clock, usedIds, chatDir, indexFile, threadFiles, left>>

\* readThreadsIndex: the write-back (a failure is logged and ignored), then
\* parsing
MigrateThreadsIndex(c) ==
  LET cr == calls[c] IN
  /\ cr.pc = "migrateIndex"
  /\ \E f \in Faults :
       /\ indexFile' = IF f \/ ~chatDir THEN indexFile
                       ELSE EncodeFor(build, cr.text, cr.root)
       /\ LET wrote == ~f /\ chatDir
              seen == [cr EXCEPT !.touched = @ \/ wrote, !.backFailed = @ \/ ~wrote]
          IN calls' = [calls EXCEPT ![c] =
               AfterWriteBack(wrote, ParseIndex(seen, cr.text),
                   Reject(seen, "WriteFailed", IndexPath(cr.root)))]
  /\ UNCHANGED <<widget, applied, build, env, clock, usedIds, chatDir, threadFiles, left>>

\* readThreadsIndex of the encoding build: the index that did not parse is
\* deleted (a failure is ignored) and the empty index is used
DropThreadsIndex(c) ==
  LET cr == calls[c] IN
  /\ cr.pc = "dropIndex"
  /\ \E f \in Faults :
       /\ indexFile' = IF f THEN indexFile ELSE Missing
       /\ calls' = [calls EXCEPT ![c] =
             OnIndex([cr EXCEPT !.touched = @ \/ ~f, !.dropFailed = f], <<>>)]
  /\ UNCHANGED <<widget, applied, build, env, clock, usedIds, chatDir, threadFiles, left>>

\* writeThreadFile persists the thread the call holds, whatever is on disk
ThreadToWrite_Merged(cr) ==
  LET disk == DiskThread(cr.root, cr.id) IN
  IF cr.op = "appendMessage" /\ disk # <<>>
  THEN [disk[1] EXCEPT !.messages = Append(@, cr.msg[1]),
                       !.updatedAt = cr.thread.updatedAt]
  ELSE cr.thread

ThreadToWrite(cr) == cr.thread

\* writeThreadFile
WriteThreadFile(c) ==
  LET cr == calls[c] IN
  /\ cr.pc = "writeThread"
  /\ \E f \in Faults :
       IF f \/ ~chatDir
       THEN /\ threadFiles' = threadFiles
            /\ calls' = [calls EXCEPT ![c] =
                  Reject(cr, "WriteFailed", ThreadPath(cr.root, cr.id))]
       ELSE /\ threadFiles' = [threadFiles EXCEPT ![cr.id] =
                  EncodeFor(build, JsonStringify(ThreadToWrite(cr)), cr.root)]
            /\ calls' = [Others(c, cr.id) EXCEPT ![c] =
                  Advance([cr EXCEPT !.wroteThread = TRUE, !.latest = TRUE,
                                     !.touched = TRUE])]
  /\ UNCHANGED <<widget, applied, build, env, clock, usedIds, chatDir, indexFile, left>>

\* writeThreadsIndex
WriteThreadsIndex(c) ==
  LET cr == calls[c] IN
  /\ cr.pc = "writeIndex"
  /\ \E f \in Faults :
       IF f \/ ~chatDir
       THEN /\ indexFile' = indexFile
            /\ calls' = [calls EXCEPT ![c] =
                  Reject(cr, "WriteFailed", IndexPath(cr.root))]
       ELSE /\ indexFile' = EncodeFor(build, JsonStringify([threads |-> cr.index]),
                                      cr.root)
            /\ calls' = [calls EXCEPT ![c] =
                  Advance([cr EXCEPT !.wroteIndex = TRUE, !.touched = TRUE])]
  /\ UNCHANGED <<widget, applied, build, env, clock, usedIds, chatDir, threadFiles, left>>

\* deleteThread: fs.unlink of the thread file; ENOENT is ignored, any other
\* error is logged and ignored
\* deleteThread, the catch around fs.unlink: the error is logged unless it
\* is ENOENT, and never thrown
UnlinkFailed_Throws(cr) == Reject(cr, "WriteFailed", ThreadPath(cr.root, cr.id))

UnlinkFailed(cr) == Advance(cr)

UnlinkThreadFile(c) ==
  LET cr == calls[c] IN
  /\ cr.pc = "unlinkThread"
  /\ \E f \in Faults :
       IF f
       THEN /\ threadFiles' = threadFiles
            /\ calls' = [calls EXCEPT ![c] =
                  UnlinkFailed([cr EXCEPT !.unlinked = "failed"])]
       ELSE /\ threadFiles' = [threadFiles EXCEPT ![cr.id] = Missing]
            /\ calls' = [Others(c, cr.id) EXCEPT ![c] =
                  Advance([cr EXCEPT !.wroteThread = TRUE, !.touched = TRUE,
                                     !.unlinked = IF threadFiles[cr.id] = Missing
                                                  THEN "missing" ELSE "removed"])]
  /\ UNCHANGED <<widget, applied, build, env, clock, usedIds, chatDir, indexFile, left>>

(***************************** the surroundings ***************************)
\* the process stops: every call in flight is gone, the files stay
Crash ==
  /\ \E c \in Slots : InFlight(c)
  /\ calls' = [c \in Slots |-> IdleCall]
  /\ UNCHANGED <<widget, applied, build, env, clock, usedIds, chatDir, indexFile, threadFiles, left>>

JunkTexts ==
  {Junk(FALSE, FALSE), Junk(TRUE, FALSE), Junk(FALSE, TRUE),
   encodeChatData(Junk(TRUE, FALSE))}

\* the calls after a file was overwritten from outside
Meddle(cs) ==
  [d \in Slots |-> IF cs[d].op = "idle" THEN cs[d]
                   ELSE [cs[d] EXCEPT !.meddled = TRUE]]

\* something else overwrites threads.json with bytes that are no JSON
CorruptIndex ==
  /\ indexFile # Missing
  /\ DiskIndexOf(indexFile, "r1") # <<>> \/ indexFile \notin JunkTexts
  /\ \E j \in JunkTexts : indexFile' = j
  /\ calls' = Meddle(calls)
  /\ left > 0 /\ left' = left - 1
  /\ UNCHANGED <<widget, applied, build, env, clock, usedIds, chatDir, threadFiles>>

\* something else overwrites threads.json with the JSON text '{}'
CorruptIndexShape ==
  /\ indexFile # Missing
  /\ DiskIndexOf(indexFile, "r1") # <<>>
  /\ indexFile' = JsonStringify(EmptyObject)
  /\ calls' = Meddle(calls)
  /\ left > 0 /\ left' = left - 1
  /\ UNCHANGED <<widget, applied, build, env, clock, usedIds, chatDir, threadFiles>>

\* something else overwrites a thread file with bytes that are no JSON
CorruptThread ==
  \E id \in ThreadIds, j \in JunkTexts :
    /\ DiskThread("r1", id) # <<>>
    /\ threadFiles' = [threadFiles EXCEPT ![id] = j]
    /\ calls' = Meddle(Others("<env>", id))
    /\ left > 0 /\ left' = left - 1
    /\ UNCHANGED <<widget, applied, build, env, clock, usedIds, chatDir, indexFile>>

(***************************** the chat widget *****************************)
\* What the current editor shows: no editor, a temporary sketch, or the
\* sketch of a saved project
Sketches == {"none", "temp", "p1", "p2"}
Projects == {"p1", "p2"}

\* the threads the history service can hold for the widget, newest first,
\* and the handlers that can be under way at once
WidgetThreads == <<"w3", "w2", "w1">>
Handlers == 1..MaxHandlers

\* getCurrentProjectRoot: the folder of the sketch of the current editor when
\* it is no temporary sketch. The editor is read when the function is called.
getCurrentProjectRoot(sketch) == IF sketch \in Projects THEN sketch ELSE NoRoot

\* A handler under way. kind: "send" (handleSend), "editor" (the listener of
\* onCurrentEditorChanged), "rename" (handleSaveRenameThread); pc: the await it
\* stands at; lpc: the await of loadProjectHistory it stands at; root, id: the
\* project root it is waiting for or the arguments of the call it awaits;
\* sketch: what the editor showed when handleSend was invoked
IdleHandler ==
  [kind |-> "idle", pc |-> "idle", lpc |-> "none", root |-> NoRoot, id |-> NoId,
   sketch |-> "none"]

\* The widget after construction, with the history store it talks to:
\* owner: the project each stored thread belongs to; stored: the threads with
\* messages; issued: the calls the handlers have made on the history service
NewWidget ==
  [editor |-> "none", inputValue |-> "", messages |-> <<>>,
   isProcessing |-> FALSE, currentProjectRoot |-> NoRoot,
   activeThreadId |-> NoId, threads |-> <<>>, inMemoryThreadName |-> None,
   handlers |-> [h \in Handlers |-> IdleHandler],
   owner |-> [t \in {"w1", "w2", "w3"} |-> IF t = "w1" THEN "p1" ELSE NoRoot],
   stored |-> {"w1"}, issued |-> {}]

\* the handler takes the first free place
FreeHandler(h) ==
  /\ widget.handlers[h].kind = "idle"
  /\ \A g \in Handlers : g < h => widget.handlers[g].kind # "idle"

addMessage(w, kind) == [w EXCEPT !.messages = Append(@, kind)]

showWelcomeMessage(w) == IF Len(w.messages) > 0 THEN w ELSE addMessage(w, "welcome")

\* listThreads of the history service, active threads most recent first
ThreadsOfProject(w, root) == SelectSeq(WidgetThreads, LAMBDA t : w.owner[t] = root)

\* a call of handler h on the history service with the widget's project root
\* and active thread
Issue(w, h, op) ==
  [w EXCEPT !.issued = @ \cup {[op |-> op, root |-> w.currentProjectRoot,
                                 id |-> IF op = "createThread" THEN NoId
                                        ELSE w.activeThreadId,
                                 sketch |-> w.handlers[h].sketch]},
            !.handlers[h].root = w.currentProjectRoot,
            !.handlers[h].id = w.activeThreadId]

\* the history service has appended to the thread, or found none
Saved(w, h) ==
  IF w.owner[w.handlers[h].id] = w.handlers[h].root
  THEN [w EXCEPT !.stored = @ \cup {w.handlers[h].id}]
  ELSE w

\* handleSend, finally
Finally(w, h) == [w EXCEPT !.isProcessing = FALSE, !.handlers[h] = IdleHandler]

\* handleSend from the user message on: the message is shown and, with a
\* project root and an active thread, appended; then isProcessing is set
SendUserMessage(w, h) ==
  LET w1 == addMessage(w, "user") IN
  IF w1.currentProjectRoot # NoRoot /\ w1.activeThreadId # NoId
  THEN [Issue(w1, h, "appendMessage") EXCEPT !.handlers[h].pc = "appendUser"]
  ELSE [w1 EXCEPT !.isProcessing = TRUE, !.handlers[h].pc = "context"]

\* loadProjectHistory begins: it awaits getCurrentProjectRoot
CallLoadProjectHistory(w, h) ==
  [w EXCEPT !.handlers[h].pc = "load", !.handlers[h].lpc = "root",
            !.handlers[h].root = getCurrentProjectRoot(w.editor)]

\* loadProjectHistory has returned to the handler that awaited it
LoadReturned(w, h) ==
  IF w.handlers[h].kind = "send"
  THEN SendUserMessage([w EXCEPT !.handlers[h].lpc = "none"], h)
  ELSE [w EXCEPT !.handlers[h] = IdleHandler]

\* loadProjectHistory without a saved project, after currentProjectRoot,
\* activeThreadId and threads were reset: messages and the in-memory name go
\* when currentProjectRoot is set
ClearClosedProject(w) ==
  IF w.currentProjectRoot # NoRoot
  THEN [w EXCEPT !.messages = <<>>, !.inMemoryThreadName = None]
  ELSE w

\* loadProjectHistory after getCurrentProjectRoot
LoadWithRoot(w, h) ==
  LET projectRoot == w.handlers[h].root IN
  IF projectRoot = NoRoot
  THEN LET reset == [w EXCEPT !.currentProjectRoot = NoRoot,
                              !.activeThreadId = NoId, !.threads = <<>>]
       IN LoadReturned(showWelcomeMessage(ClearClosedProject(reset)), h)
  ELSE LET w1 == IF w.currentProjectRoot # projectRoot
                 THEN [w EXCEPT !.messages = <<>>, !.activeThreadId = NoId,
                                !.inMemoryThreadName = None]
                 ELSE w
       IN [w1 EXCEPT !.currentProjectRoot = projectRoot,
                     !.handlers[h].lpc = "list"]

\* switchToThread up to its await of loadThread
switchToThread(w, h, threadId) ==
  IF w.currentProjectRoot = NoRoot
  THEN LoadReturned(w, h)
  ELSE [w EXCEPT !.handlers[h].lpc = "switch",
                 !.handlers[h].root = w.currentProjectRoot,
                 !.handlers[h].id = threadId]

\* loadProjectHistory after listThreads
LoadWithThreads(w, h) ==
  LET found == ThreadsOfProject(w, w.handlers[h].root)
      w1 == [w EXCEPT !.threads = found]
  IN IF Len(found) > 0 /\ w1.activeThreadId = NoId
     THEN switchToThread(w1, h, found[1])
     ELSE IF Len(found) = 0 /\ Len(w1.messages) = 0
     THEN LoadReturned(showWelcomeMessage(w1), h)
     ELSE LoadReturned(w1, h)

\* switchToThread after loadThread: the thread's messages are shown, or the
\* error is logged
LoadWithThread(w, h) ==
  LET hr == w.handlers[h] IN
  IF w.owner[hr.id] = hr.root
  THEN LET w1 == [w EXCEPT !.activeThreadId = hr.id,
                           !.messages = IF hr.id \in w.stored THEN <<"stored">>
                                        ELSE <<>>]
       IN LoadReturned(showWelcomeMessage(w1), h)
  ELSE LoadReturned(w, h)

\* what the widget's actions leave alone
service ==
  <<applied, build, env, clock, usedIds, chatDir, indexFile, threadFiles, calls>>

\* the user opens another sketch: the listener of onCurrentEditorChanged
\* calls loadProjectHistory
EditorChanged(h) ==
  /\ left > 0 /\ left' = left - 1
  /\ FreeHandler(h)
  /\ \E e \in Sketches \ {widget.editor} :
       widget' = CallLoadProjectHistory(
                   [widget EXCEPT !.editor = e, !.handlers[h].kind = "editor"], h)
  /\ UNCHANGED service

\* handleInputChange: the textarea is enabled while isProcessing is false
TypeInput ==
  /\ ~widget.isProcessing
  /\ widget.inputValue = ""
  /\ widget' = [widget EXCEPT !.inputValue = "text"]
  /\ UNCHANGED <<service, left>>

\* handleSend up to its await of getCurrentProjectRoot; without text or
\* with isProcessing set it returns at once
HandleSend(h) ==
  /\ left > 0 /\ left' = left - 1
  /\ FreeHandler(h)
  /\ widget.inputValue # "" /\ ~widget.isProcessing
  /\ widget' = [widget EXCEPT !.inputValue = "",
                  !.handlers[h] = [IdleHandler EXCEPT !.kind = "send", !.pc = "root",
                      !.root = getCurrentProjectRoot(widget.editor),
                      !.sketch = widget.editor]]
  /\ UNCHANGED service

\* handleSend after getCurrentProjectRoot
SendWithRoot(h) ==
  LET hr == widget.handlers[h]
      w1 == IF hr.root # NoRoot /\ widget.currentProjectRoot # hr.root
            THEN [widget EXCEPT !.currentProjectRoot = hr.root]
            ELSE widget
  IN
  /\ hr.kind = "send" /\ hr.pc = "root"
  /\ widget' = IF hr.root # NoRoot /\ w1.activeThreadId = NoId
               THEN [Issue(w1, h, "createThread") EXCEPT !.handlers[h].pc = "create"]
               ELSE SendUserMessage(w1, h)
  /\ UNCHANGED <<service, left>>

\* handleSend after createThread: the new thread is the active one and
\* loadProjectHistory is awaited; a failure is logged
SendWithThread(h) ==
  LET hr == widget.handlers[h]
      unused == SelectSeq(WidgetThreads, LAMBDA t : widget.owner[t] = NoRoot)
  IN
  /\ hr.kind = "send" /\ hr.pc = "create"
  /\ \E ok \in BOOLEAN :
       /\ ok => Len(unused) > 0
       /\ widget' =
            IF ok
            THEN LET threadId == unused[Len(unused)] IN
                 CallLoadProjectHistory(
                   [widget EXCEPT !.owner[threadId] = hr.root,
                                  !.activeThreadId = threadId,
                                  !.messages = SelectSeq(@, LAMBDA m : m # "welcome")],
                   h)
            ELSE SendUserMessage(widget, h)
  /\ UNCHANGED <<service, left>>

\* loadProjectHistory at each of its awaits
LoadProjectHistory(h) ==
  LET hr == widget.handlers[h] IN
  /\ hr.pc = "load"
  /\ widget' = CASE hr.lpc = "root" -> LoadWithRoot(widget, h)
                 [] hr.lpc = "list" -> LoadWithThreads(widget, h)
                 [] hr.lpc = "switch" -> LoadWithThread(widget, h)
  /\ UNCHANGED <<service, left>>

\* handleSend after appendMessage of the user's message
UserMessageSaved(h) ==
  /\ widget.handlers[h].kind = "send" /\ widget.handlers[h].pc = "appendUser"
  /\ widget' = [Saved(widget, h) EXCEPT !.isProcessing = TRUE,
                                        !.handlers[h].pc = "context"]
  /\ UNCHANGED <<service, left>>

\* handleSend after buildSketchContext: callLLM, or the catch
ContextBuilt(h) ==
  /\ widget.handlers[h].kind = "send" /\ widget.handlers[h].pc = "context"
  /\ \E ok \in BOOLEAN :
       widget' = IF ok THEN [widget EXCEPT !.handlers[h].pc = "llm"]
                 ELSE Finally(addMessage(widget, "error"), h)
  /\ UNCHANGED <<service, left>>

\* handleSend after callLLM: the answer is shown and appended, or the catch
LLMReturned(h) ==
  /\ widget.handlers[h].kind = "send" /\ widget.handlers[h].pc = "llm"
  /\ \E ok \in BOOLEAN :
       widget' =
         IF ok
         THEN LET w1 == addMessage(widget, "assistant") IN
              IF w1.currentProjectRoot # NoRoot /\ w1.activeThreadId # NoId
              THEN [Issue(w1, h, "appendMessage") EXCEPT
                      !.handlers[h].pc = "appendAssistant"]
              ELSE Finally(w1, h)
         ELSE Finally(addMessage(widget, "error"), h)
  /\ UNCHANGED <<service, left>>

\* handleSend after appendMessage of the answer
AssistantMessageSaved(h) ==
  /\ widget.handlers[h].kind = "send" /\ widget.handlers[h].pc = "appendAssistant"
  /\ widget' = Finally(Saved(widget, h), h)
  /\ UNCHANGED <<service, left>>

\* handleSaveRenameThread: with a project root and an active thread the name
\* goes to the history service, else into inMemoryThreadName
HandleSaveRenameThread(h) ==
  /\ left > 0 /\ left' = left - 1
  /\ FreeHandler(h)
  /\ widget' =
       IF widget.currentProjectRoot # NoRoot /\ widget.activeThreadId # NoId
       THEN [Issue([widget EXCEPT !.handlers[h].kind = "rename"], h, "renameThread")
               EXCEPT !.handlers[h].pc = "rename"]
       ELSE [widget EXCEPT !.inMemoryThreadName = Some("name")]
  /\ UNCHANGED service

\* handleSaveRenameThread after renameThread: the list is loaded again, or
\* after a failure the name is kept in memory
ThreadRenamed(h) ==
  LET hr == widget.handlers[h] IN
  /\ hr.kind = "rename" /\ hr.pc = "rename"
  /\ widget' = IF widget.owner[hr.id] = hr.root
               THEN CallLoadProjectHistory(widget, h)
               ELSE [widget EXCEPT !.inMemoryThreadName = Some("name"),
                                   !.handlers[h] = IdleHandler]
  /\ UNCHANGED <<service, left>>

(****************************** specifications ****************************)
EmptyStore ==
  /\ clock = 0
  /\ usedIds = {}
  /\ chatDir = FALSE
  /\ indexFile = Missing
  /\ threadFiles = [i \in ThreadIds |-> Missing]

\* A store after createThread(r1, m1) and createThread(r1), as the running
\* build leaves it
StoredThread(id) ==
  NewThread("r1", id, IF id = "t1" THEN Some(CHOOSE m \in Messages : m.id = "m1")
                      ELSE None, 0)

StoredSummary(id) ==
  NewSummary(StoredThread(id),
             IF id = "t1" THEN Some(CHOOSE m \in Messages : m.id = "m1") ELSE None)

PopulatedStore ==
  /\ clock = 0
  /\ usedIds = ThreadIds
  /\ chatDir = TRUE
  /\ indexFile = EncodeFor(build,
                    JsonStringify([threads |-> <<StoredSummary("t1"), StoredSummary("t2")>>]),
                    "r1")
  /\ threadFiles = [i \in ThreadIds |->
                      EncodeFor(build, JsonStringify(StoredThread(i)), "r1")]

\* The same store as an older build left it: plaintext JSON (generation 1)
\* or base64 of the JSON text (generation 2)
LegacyText(gen, doc) ==
  IF gen = 1 THEN JsonStringify(doc) ELSE encodeChatData(JsonStringify(doc))

LegacyStore(gen) ==
  /\ clock = 0
  /\ usedIds = ThreadIds
  /\ chatDir = TRUE
  /\ indexFile = LegacyText(gen,
                    [threads |-> <<StoredSummary("t1"), StoredSummary("t2")>>])
  /\ threadFiles = [i \in ThreadIds |-> LegacyText(gen, StoredThread(i))]

\* calls overlap at their file operations; nothing fails
Init ==
  /\ build \in {"encryption", "encoding"}
  /\ env = [concurrent |-> TRUE, faults |-> FALSE]
  /\ EmptyStore \/ PopulatedStore
  /\ calls = [c \in Slots |-> IdleCall]
  /\ applied = NotApplied
  /\ widget = NewWidget
  /\ left = MaxEvents

Next ==
  \E c \in Slots :
       \/ CallListThreads(c)
       \/ CallCreateThread(c)
       \/ CallGetThread(c)
       \/ CallAppendMessage(c)
       \/ CallRenameThread(c)
       \/ CallArchiveThread(c)
       \/ CallDeleteThread(c)
       \/ CallClearMessages(c)
       \/ EnsureChatHistoryDir(c)
       \/ ReadThreadFile(c)
       \/ ReadThreadsIndex(c)
       \/ WriteThreadFile(c)
       \/ WriteThreadsIndex(c)
       \/ UnlinkThreadFile(c)

Spec == Init /\ [][Next]_vars

\* one call at a time; file operations fail and files are overwritten with
\* bytes that are no JSON
InitFault ==
  /\ build \in {"encryption", "encoding"}
  /\ env = [concurrent |-> FALSE, faults |-> TRUE]
  /\ EmptyStore \/ PopulatedStore
  /\ calls = [c \in Slots |-> IdleCall]
  /\ applied = NotApplied
  /\ widget = NewWidget
  /\ left = MaxFaultEvents

NextFault ==
  \/ \E c \in Slots :
       \/ CallListThreads(c)
       \/ CallCreateThread(c)
       \/ CallGetThread(c)
       \/ CallAppendMessage(c)
       \/ CallRenameThread(c)
       \/ CallArchiveThread(c)
       \/ CallDeleteThread(c)
       \/ CallClearMessages(c)
       \/ EnsureChatHistoryDir(c)
       \/ ReadThreadFile(c)
       \/ MigrateThreadFile(c)
       \/ DropThreadFile(c)
       \/ ReadThreadsIndex(c)
       \/ MigrateThreadsIndex(c)
       \/ DropThreadsIndex(c)
       \/ WriteThreadFile(c)
       \/ WriteThreadsIndex(c)
       \/ UnlinkThreadFile(c)
  \/ CorruptIndex
  \/ CorruptThread

SpecFault == InitFault /\ [][NextFault]_vars

\* the same, and threads.json may also be overwritten with other JSON
NextShape == NextFault \/ CorruptIndexShape

SpecShape == InitFault /\ [][NextShape]_vars

\* one call at a time; file operations fail, the files are in the build's
\* format and nothing else writes them
InitIO ==
  /\ build \in {"encryption", "encoding"}
  /\ env = [concurrent |-> FALSE, faults |-> TRUE]
  /\ EmptyStore \/ PopulatedStore
  /\ calls = [c \in Slots |-> IdleCall]
  /\ applied = NotApplied
  /\ widget = NewWidget
  /\ left = MaxIOEvents

NextIO ==
  \E c \in Slots :
    \/ CallListThreads(c)
    \/ CallCreateThread(c)
    \/ CallGetThread(c)
    \/ CallAppendMessage(c)
    \/ CallRenameThread(c)
    \/ CallArchiveThread(c)
    \/ CallDeleteThread(c)
    \/ CallClearMessages(c)
    \/ EnsureChatHistoryDir(c)
    \/ ReadThreadFile(c)
    \/ ReadThreadsIndex(c)
    \/ WriteThreadFile(c)
    \/ WriteThreadsIndex(c)
    \/ UnlinkThreadFile(c)

SpecIO == InitIO /\ [][NextIO]_vars

\* one call at a time on a store of an older generation, whose two thread
\* ids are taken; file operations fail
InitLegacy ==
  /\ build \in {"encryption", "encoding"}
  /\ env = [concurrent |-> FALSE, faults |-> TRUE]
  /\ \E gen \in {1, 2} : LegacyStore(gen)
  /\ calls = [c \in Slots |-> IdleCall]
  /\ applied = NotApplied
  /\ widget = NewWidget
  /\ left = MaxLegacyEvents

NextLegacy ==
  \E c \in Slots :
    \/ CallListThreads(c)
    \/ CallGetThread(c)
    \/ CallAppendMessage(c)
    \/ CallRenameThread(c)
    \/ CallArchiveThread(c)
    \/ CallDeleteThread(c)
    \/ CallClearMessages(c)
    \/ ReadThreadFile(c)
    \/ MigrateThreadFile(c)
    \/ ReadThreadsIndex(c)
    \/ MigrateThreadsIndex(c)
    \/ WriteThreadFile(c)
    \/ WriteThreadsIndex(c)
    \/ UnlinkThreadFile(c)

SpecLegacy == InitLegacy /\ [][NextLegacy]_vars

\* the chat-encoding build, one call at a time; files are overwritten with
\* bytes that are no JSON and file operations fail
InitRecover ==
  /\ build = "encoding"
  /\ env = [concurrent |-> FALSE, faults |-> TRUE]
  /\ EmptyStore \/ PopulatedStore
  /\ calls = [c \in Slots |-> IdleCall]
  /\ applied = NotApplied
  /\ widget = NewWidget
  /\ left = MaxRecoverEvents

SpecRecover == InitRecover /\ [][NextFault]_vars

\* the chat-encryption build, one call at a time, on a store written under
\* r1 whose project directory is moved to r2 and back between the calls
InitMoved ==
  /\ build = "encryption"
  /\ env = [concurrent |-> FALSE, faults |-> FALSE]
  /\ PopulatedStore
  /\ calls = [c \in Slots |-> IdleCall]
  /\ applied = NotApplied
  /\ widget = NewWidget
  /\ left = MaxMovedEvents

NextMoved ==
  \E c \in Slots :
    \/ CallListThreads(c)
    \/ CallListThreadsMoved(c)
    \/ CallGetThread(c)
    \/ CallGetThreadMoved(c)
    \/ CallAppendMessage(c)
    \/ CallAppendMessageMoved(c)
    \/ CallRenameThread(c)
    \/ CallArchiveThread(c)
    \/ CallDeleteThread(c)
    \/ ReadThreadFile(c)
    \/ ReadThreadsIndex(c)
    \/ WriteThreadFile(c)
    \/ WriteThreadsIndex(c)
    \/ UnlinkThreadFile(c)

SpecMoved == InitMoved /\ [][NextMoved]_vars

\* one call at a time on a store that starts empty, nothing fails
InitSeq ==
  /\ build \in {"encryption", "encoding"}
  /\ env = [concurrent |-> FALSE, faults |-> FALSE]
  /\ EmptyStore
  /\ calls = [c \in Slots |-> IdleCall]
  /\ applied = NotApplied
  /\ widget = NewWidget
  /\ left = MaxSeqEvents

NextSeq ==
  \E c \in Slots :
       \/ CallListThreads(c)
       \/ CallCreateThread(c)
       \/ CallGetThread(c)
       \/ CallAppendMessage(c)
       \/ CallRenameThread(c)
       \/ CallArchiveThread(c)
       \/ CallDeleteThread(c)
       \/ CallClearMessages(c)
       \/ EnsureChatHistoryDir(c)
       \/ ReadThreadFile(c)
       \/ ReadThreadsIndex(c)
       \/ WriteThreadFile(c)
       \/ WriteThreadsIndex(c)
       \/ UnlinkThreadFile(c)

SpecSeq == InitSeq /\ [][NextSeq]_vars

\* one call at a time on a store that starts empty; the process may stop
\* between any two file operations
\* Overlapping appendMessage calls on a store that holds threads
InitAppends ==
  /\ build \in {"encryption", "encoding"}
  /\ env = [concurrent |-> TRUE, faults |-> FALSE]
  /\ clock = 0
  /\ calls = [c \in Slots |-> IdleCall]
  /\ applied = NotApplied
  /\ widget = NewWidget
  /\ left = MaxAppendEvents
  /\ PopulatedStore

NextAppends ==
  \E c \in Slots :
    \/ CallAppendMessage(c)
    \/ ReadThreadFile(c)
    \/ ReadThreadsIndex(c)
    \/ WriteThreadFile(c)
    \/ WriteThreadsIndex(c)

SpecAppends == InitAppends /\ [][NextAppends]_vars

NextCrash == NextSeq \/ Crash

SpecCrash == InitSeq /\ [][NextCrash]_vars

\* one call after the other on the encryption build, nothing fails; the
\* store is in the newest generation or in plaintext JSON
InitList ==
  /\ build = "encryption"
  /\ env = [concurrent |-> FALSE, faults |-> FALSE]
  /\ PopulatedStore \/ LegacyStore(1)
  /\ calls = [c \in Slots |-> IdleCall]
  /\ applied = NotApplied
  /\ widget = NewWidget
  /\ left = MaxListEvents

NextList ==
  \E c \in Slots :
    \/ CallListThreads(c)
    \/ CallAppendMessage(c)
    \/ CallArchiveThread(c)
    \/ ReadThreadFile(c)
    \/ MigrateThreadFile(c)
    \/ ReadThreadsIndex(c)
    \/ MigrateThreadsIndex(c)
    \/ WriteThreadFile(c)
    \/ WriteThreadsIndex(c)

SpecList == InitList /\ [][NextList]_vars

\* calls that overlap on a store in plaintext JSON; nothing fails
InitOverlap ==
  /\ build \in {"encryption", "encoding"}
  /\ env = [concurrent |-> TRUE, faults |-> FALSE]
  /\ LegacyStore(1)
  /\ calls = [c \in Slots |-> IdleCall]
  /\ applied = NotApplied
  /\ widget = NewWidget
  /\ left = MaxOverlapEvents

NextOverlap ==
  \E c \in Slots :
    \/ CallGetThread(c)
    \/ CallAppendMessage(c)
    \/ ReadThreadFile(c)
    \/ MigrateThreadFile(c)
    \/ ReadThreadsIndex(c)
    \/ MigrateThreadsIndex(c)
    \/ WriteThreadFile(c)
    \/ WriteThreadsIndex(c)

SpecOverlap == InitOverlap /\ [][NextOverlap]_vars

\* the chat widget with its history service; the user types, sends, renames
\* and opens sketches while handlers are under way
InitWidget ==
  /\ build = "encryption"
  /\ env = [concurrent |-> FALSE, faults |-> FALSE]
  /\ EmptyStore
  /\ calls = [c \in Slots |-> IdleCall]
  /\ applied = NotApplied
  /\ \E e \in Sketches : widget = [NewWidget EXCEPT !.editor = e]
  /\ left = MaxWidgetEvents

NextWidget ==
  \/ TypeInput
  \/ \E h \in Handlers :
       \/ EditorChanged(h)
       \/ HandleSend(h)
       \/ SendWithRoot(h)
       \/ SendWithThread(h)
       \/ LoadProjectHistory(h)
       \/ UserMessageSaved(h)
       \/ ContextBuilt(h)
       \/ LLMReturned(h)
       \/ AssistantMessageSaved(h)
       \/ HandleSaveRenameThread(h)
       \/ ThreadRenamed(h)

SpecWidget == InitWidget /\ [][NextWidget]_vars

(*********************** the functions on their own ***********************)
TextChars == {"{", ":", "a", " ", Eacute}
TextsUpTo(n) == UNION {[1..m -> TextChars] : m \in 0..n}
Texts == TextsUpTo(MaxTextLen)
SealedTexts == TextsUpTo(MaxSealedLen)
CodecRoots == {<<"/", "p">>, <<"/", "q">>}
IvSeeds == {1, 2}

Applied(fn, arg, out) == [fn |-> fn, arg |-> arg, out |-> out]

\* the store and the calls, which no function touches
store ==
  <<build, env, clock, usedIds, chatDir, indexFile, threadFiles, calls, left, widget>>

\* decryptChatData(encryptChatData(data, writeRoot), readRoot)
ApplyEncryptDecrypt ==
  /\ applied = NotApplied
  /\ \E data \in Texts, writeRoot \in CodecRoots, readRoot \in CodecRoots,
        seed \in IvSeeds :
       \E sealed \in {encryptChatDataText(data, writeRoot, RandomBytes(seed))} :
         applied' = Applied("encryptDecrypt",
                      [data |-> data, writeRoot |-> writeRoot,
                       readRoot |-> readRoot, sealed |-> sealed],
                      decryptChatDataText(sealed, readRoot))
  /\ UNCHANGED store

\* decodeChatData(encodeChatData(data))
ApplyEncodeDecode ==
  /\ applied = NotApplied
  /\ \E data \in Texts :
       LET encoded == encodeChatDataText(data)
       IN applied' = Applied("encodeDecode", [data |-> data, encoded |-> encoded],
                decodeChatDataText(encoded))
  /\ UNCHANGED store

\* decryptChatData of a text that encryptChatData did not produce
ApplyDecrypt ==
  /\ applied = NotApplied
  /\ \E text \in Texts, root \in CodecRoots :
       applied' = Applied("decrypt", [text |-> text, root |-> root],
             decryptChatDataText(text, root))
  /\ UNCHANGED store

\* what may be done to one segment of iv:tag:ciphertext, on its bytes or on
\* its base64 text alone
ByteChanges == {"first", "last", "shorter", "longer",
                "keep3", "keep4", "keep8", "keep12", "keep15"}
TextChanges == {"unpadded", "spaced", "urlSafe"}
SegmentChanges == {"dropIv", "fourth", "joined"}

Keep(b, n) == SubSeq(b, 1, IF n < Len(b) THEN n ELSE Len(b))

ChangedBytes(b, how) ==
  CASE how = "first" -> IF b = <<>> THEN b ELSE [b EXCEPT ![1] = (@ + 1) % 256]
    [] how = "last" -> IF b = <<>> THEN b ELSE [b EXCEPT ![Len(b)] = (@ + 128) % 256]
    [] how = "shorter" -> Keep(b, Len(b) - 1)
    [] how = "longer" -> b \o <<0>>
    [] how = "keep3" -> Keep(b, 3)
    [] how = "keep4" -> Keep(b, 4)
    [] how = "keep8" -> Keep(b, 8)
    [] how = "keep12" -> Keep(b, 12)
    [] how = "keep15" -> Keep(b, 15)

ChangedText(t, how) ==
  CASE how = "unpadded" -> SelectSeq(t, LAMBDA ch : ch # "=")
    [] how = "spaced" -> <<" ">> \o t
    [] how = "urlSafe" ->
         [i \in 1..Len(t) |-> IF t[i] = "+" THEN "-"
                              ELSE IF t[i] = "/" THEN "_" ELSE t[i]]

ChangedPart(t, how) ==
  IF how \in TextChanges THEN ChangedText(t, how)
  ELSE ToBase64(ChangedBytes(FromBase64(t), how))

Join3(p) == p[1] \o <<":">> \o p[2] \o <<":">> \o p[3]

Changed(sealed, part, how) ==
  LET p == Split(sealed, ":")
  IN CASE how = "dropIv" -> p[2] \o <<":">> \o p[3]
       [] how = "fourth" -> sealed \o <<":">> \o p[3]
       [] how = "joined" -> p[1] \o p[2] \o p[3]
       [] OTHER -> Join3([p EXCEPT ![part] = ChangedPart(@, how)])

\* decryptChatData of what encryptChatData produced under the same root,
\* after one of its segments was changed
ApplyDecryptChanged ==
  /\ applied = NotApplied
  /\ \E data \in SealedTexts, root \in CodecRoots, seed \in IvSeeds :
       \E sealed \in {encryptChatDataText(data, root, RandomBytes(seed))},
          part \in 1..3, how \in ByteChanges \cup TextChanges \cup SegmentChanges :
         \E text \in {Changed(sealed, part, how)} :
           applied' = Applied("decryptChanged",
                        [data |-> data, root |-> root, sealed |-> sealed,
                         part |-> part, how |-> how, text |-> text],
                        decryptChatDataText(text, root))
  /\ UNCHANGED store

\* texts that are base64 as they stand
Base64Texts ==
  { <<"e", "w">>, <<"e", "w", "=", "=">>, <<"W", "w">>, <<" ", "e", "w">>,
    <<"I", "H", "s">>, <<"e", ":", "w">>, <<"e", ":", "w", ":">>,
    <<"Y", "Q", "=", "=">> }

\* the texts given to the classifier: a text as it is, its base64, what
\* encryptChatData gives for it, and the base64 texts above
ClassifierInput(kind, t) ==
  CASE kind = "plain" -> t
    [] kind = "encoded" -> encodeChatDataText(t)
    [] kind = "sealed" -> encryptChatDataText(t, <<"/", "p">>, RandomBytes(1))

ClassifierInputs ==
  [kind : {"plain", "encoded"}, of : Texts]
    \cup [kind : {"plain"}, of : Base64Texts]
    \cup [kind : {"sealed"}, of : SealedTexts]

\* isEncoded(data) and isEncrypted(data)
ApplyClassify ==
  /\ applied = NotApplied
  /\ \E in \in ClassifierInputs :
       LET data == ClassifierInput(in.kind, in.of)
       IN applied' = Applied("classify",
                        [data |-> data, kind |-> in.kind, of |-> in.of],
                        [encoded |-> isEncodedText(data),
                         encrypted |-> isEncryptedText(data)])
  /\ UNCHANGED store

\* the contents of a first message: white space, a body, the end of a
\* sentence or none, and more text or none
TitleLeads == {<<>>, <<" ">>}
TitleStops == {<<>>, <<".">>, <<".", " ">>, <<"!", "\n">>, <<"?", "y">>}
TitleTails == {<<>>, <<"y">>, Rep(10, "y")}
TitleRoles == {"user", "assistant"}

TitleMessages ==
  { Some([id |-> "m1", role |-> role,
          content |-> lead \o Rep(n, "x") \o stop \o tail]) :
      role \in TitleRoles, lead \in TitleLeads, n \in 0..MaxTitleBody,
      stop \in TitleStops, tail \in TitleTails } \cup {None}

\* createThread: the title of the new thread
ApplyNewThreadTitle ==
  /\ applied = NotApplied
  /\ \E msg \in TitleMessages :
       applied' = Applied("title", [msg |-> msg], NewThread("r1", "t1", msg, 0).title)
  /\ UNCHANGED store

InitPure ==
  /\ build = "encryption"
  /\ env = [concurrent |-> FALSE, faults |-> FALSE]
  /\ EmptyStore
  /\ calls = [c \in Slots |-> IdleCall]
  /\ applied = NotApplied
  /\ widget = NewWidget
  /\ left = 0

NextPure ==
  \/ ApplyEncryptDecrypt
  \/ ApplyEncodeDecode
  \/ ApplyDecrypt
  \/ ApplyDecryptChanged
  \/ ApplyClassify
  \/ ApplyNewThreadTitle

SpecPure == InitPure /\ [][NextPure]_vars

(******************************* properties *******************************)
\* c1 and c2 are appendMessage calls on one thread, both read the thread file
\* before either wrote it, c1 wrote first, c2 wrote after it, and nothing
\* has changed the file since
OverlappingAppends(c1, c2) ==
  /\ c1 # c2
  /\ calls[c1].op = "appendMessage" /\ calls[c2].op = "appendMessage"
  /\ calls[c1].root = calls[c2].root /\ calls[c1].id = calls[c2].id
  /\ calls[c1].wroteThread /\ calls[c2].wroteThread
  /\ c1 \in calls[c2].lost
  /\ calls[c2].latest

\* C1 as claimed: two appendMessage calls on one thread that both read the
\* thread file before either writes it append to the same base, and the
\* thread file the later writer leaves is that base followed by the later
\* writer's message, without the earlier writer's message.
C1_SameBaseLaterWriterWins ==
  \A c1, c2 \in Slots :
    OverlappingAppends(c1, c2) =>
      /\ calls[c1].base = calls[c2].base
      /\ DiskThread(calls[c2].root, calls[c2].id) = <<calls[c2].thread>>
      /\ calls[c2].thread.messages =
           Append(calls[c1].base.messages, calls[c2].msg[1])

\* C1 as amended: when two appendMessage calls on one thread both read the
\* thread file before either writes it, the thread file the later writer
\* leaves is what the later writer read followed by its own message, and the
\* message of the earlier writer, which the earlier writer had put in the
\* file, is not in it; the two append to the same base when no third call
\* wrote the thread file between the read and the write of either.
C1_LaterWriterWins ==
  \A c1, c2 \in Slots :
    OverlappingAppends(c1, c2) =>
      LET disk == DiskThread(calls[c2].root, calls[c2].id)
          m1 == calls[c1].msg[1]
      IN
      /\ disk = <<calls[c2].thread>>
      /\ disk[1].messages = Append(calls[c2].base.messages, calls[c2].msg[1])
      /\ calls[c1].thread.messages = Append(calls[c1].base.messages, m1)
      /\ (m1 # calls[c2].msg[1]
            /\ \A i \in 1..Len(calls[c2].base.messages) :
                  calls[c2].base.messages[i] # m1)
         => \A i \in 1..Len(disk[1].messages) : disk[1].messages[i] # m1
      /\ (calls[c1].overwritten = 0 /\ calls[c2].overwritten = 1)
         => calls[c1].base = calls[c2].base

\* two overlapping appends of different messages to a thread with a message,
\* no third writer, both returned
C1_Witness ==
  \E c1, c2 \in Slots :
    /\ OverlappingAppends(c1, c2)
    /\ calls[c1].msg # calls[c2].msg
    /\ calls[c1].base.messages # <<>>
    /\ calls[c1].overwritten = 0 /\ calls[c2].overwritten = 1
    /\ calls[c1].pc = "done" /\ calls[c2].pc = "done"

MutatingOps == {"createThread", "deleteThread"} \cup UpdateOps

\* C2 as claimed: in every mutating operation, deleteThread included, the
\* thread file is written or removed before the index is written.
C2_ThreadFileBeforeIndex ==
  \A c \in Slots :
    (calls[c].op \in MutatingOps /\ calls[c].wroteIndex) => calls[c].wroteThread

\* C2 as amended: createThread, appendMessage, renameThread, archiveThread and
\* clearMessages write the thread file before they write the index;
\* deleteThread writes the index before it removes the thread file.
C2_ThreadFileBeforeIndexButDelete ==
  \A c \in Slots :
    /\ (calls[c].op \in MutatingOps \ {"deleteThread"} /\ calls[c].wroteIndex)
         => calls[c].wroteThread
    /\ (calls[c].op = "deleteThread" /\ calls[c].wroteThread)
         => calls[c].wroteIndex

C2_Witness ==
  \E c, d \in Slots :
    /\ calls[c].op = "deleteThread" /\ calls[c].wroteThread /\ calls[c].wroteIndex
    /\ calls[d].op \in UpdateOps /\ calls[d].wroteThread /\ calls[d].wroteIndex

\* C3: with one call at a time on a store that starts empty, and the process
\* stopping between any two file operations, every summary of the index has a
\* thread file, and that thread's updatedAt is not older than the summary's.
C3_IndexNeverAhead ==
  \A r \in Roots :
    \A i \in 1..Len(DiskIndex(r)) :
      LET s == DiskIndex(r)[i]
          th == DiskThread(r, s.id)
      IN /\ threadFiles[s.id] # Missing
         /\ th # <<>>
         /\ th[1].updatedAt >= s.updatedAt

\* the process stopped between the two writes of an update: the index is stale
C3_Witness ==
  /\ \A c \in Slots : calls[c].op = "idle"
  /\ \E r \in Roots : \E i \in 1..Len(DiskIndex(r)) :
       LET s == DiskIndex(r)[i]
           th == DiskThread(r, s.id)
       IN th # <<>> /\ th[1].updatedAt > s.updatedAt

(* what a finished call of one-at-a-time callers left, against the files  *)
(* as they were when it began                                              *)
Returned(c, op) ==
  calls[c].op = op /\ calls[c].pc = "done" /\ calls[c].res = "ok"

PreIndex(c) == DiskIndexOf(calls[c].pre.index, calls[c].root)

PreThread(c) == DiskThreadOf(calls[c].pre.threads[calls[c].id], calls[c].root)

\* the summaries with another id, in their order
OtherSummaries(threads, id) == SelectSeq(threads, LAMBDA s : s.id # id)

\* the first n characters of a string
FirstChars(str, n) ==
  [i \in 1..(IF Len(str) < n THEN Len(str) ELSE n) |-> str[i]]

\* every thread file but that of id is as it was when call c began
OtherFilesKept(c) ==
  \A j \in ThreadIds \ {calls[c].id} : threadFiles[j] = calls[c].pre.threads[j]

\* C4: when threads.json holds bytes that decode to no JSON, listThreads
\* resolves with the empty list and does not reject.
C4_CorruptIndexListsEmpty ==
  \A c \in Slots :
    (calls[c].op = "listThreads" /\ calls[c].pc = "done"
       /\ calls[c].indexWas = "nojson")
    => calls[c].res = "ok" /\ calls[c].ret = <<>>

\* C5: listThreads resolves with the empty list and does not reject when the
\* chat directory or threads.json is missing or when reading threads.json
\* fails with an I/O error; when missing, it creates no file or directory.
C5_UnreadableIndexListsEmpty ==
  \A c \in Slots :
    (calls[c].op = "listThreads" /\ calls[c].pc = "done"
       /\ calls[c].indexWas \in {"missing", "error"})
    => /\ calls[c].res = "ok" /\ calls[c].ret = <<>>
       /\ calls[c].indexWas = "missing" => ~calls[c].touched

\* C6 as claimed: after deleteThread returned, listThreads has no summary of
\* the id, getThread rejects with NotFound, and the other summaries and
\* thread files are as before.
C6_DeletedThreadIsGone ==
  \A c \in Slots :
    Returned(c, "deleteThread") =>
      /\ FindSummary(ListThreadsNow(calls[c].root), calls[c].id) = 0
      /\ GetThreadNow(calls[c].root, calls[c].id) = "NotFound"
      /\ OtherSummaries(DiskIndex(calls[c].root), calls[c].id)
           = OtherSummaries(PreIndex(c), calls[c].id)
      /\ OtherFilesKept(c)

\* C6 as amended: after deleteThread returned, listThreads has no summary of
\* the id and the other summaries and thread files are as before; getThread
\* rejects with NotFound when the removal of the thread file succeeded or
\* there was no file, and when the removal failed the call returns all the
\* same and the thread file is still there, as it was.
C6_DeletedThreadIsUnlisted ==
  \A c \in Slots :
    Returned(c, "deleteThread") =>
      /\ FindSummary(ListThreadsNow(calls[c].root), calls[c].id) = 0
      /\ (calls[c].wroteThread \/ calls[c].pre.threads[calls[c].id] = Missing)
           => GetThreadNow(calls[c].root, calls[c].id) = "NotFound"
      /\ ~calls[c].wroteThread
           => threadFiles[calls[c].id] = calls[c].pre.threads[calls[c].id]
      /\ OtherSummaries(DiskIndex(calls[c].root), calls[c].id)
           = OtherSummaries(PreIndex(c), calls[c].id)
      /\ OtherFilesKept(c)

\* a listed thread with a file was deleted, another summary was in the index
C6_Witness ==
  \E c \in Slots :
    /\ Returned(c, "deleteThread")
    /\ calls[c].wroteThread
    /\ calls[c].pre.threads[calls[c].id] # Missing
    /\ FindSummary(PreIndex(c), calls[c].id) # 0
    /\ OtherSummaries(PreIndex(c), calls[c].id) # <<>>

\* C7: after createThread(root, m) returned, getThread gives the returned
\* thread, active, with messages [m] (none without m); the index has exactly
\* one summary of its id, with the thread's title, createdAt, updatedAt and
\* status and the first 100 characters of m's content as preview; and the
\* summaries that were in the index are all there, unchanged.
C7_CreatedThreadIsStored ==
  \A c \in Slots :
    Returned(c, "createThread") =>
      LET cr == calls[c]
          th == DiskThread(cr.root, cr.id)
          idx == DiskIndex(cr.root)
          hits == {i \in 1..Len(idx) : idx[i].id = cr.id}
      IN
      /\ GetThreadNow(cr.root, cr.id) = "ok"
      /\ th = cr.ret
      /\ th[1].status = "active"
      /\ th[1].messages = cr.msg
      /\ Cardinality(hits) = 1
      /\ \A i \in hits :
           /\ idx[i].title = th[1].title
           /\ idx[i].createdAt = th[1].createdAt
           /\ idx[i].updatedAt = th[1].updatedAt
           /\ idx[i].status = th[1].status
           /\ idx[i].lastMessagePreview =
                IF cr.msg = None THEN None
                ELSE Some(FirstChars(cr.msg[1].content, 100))
      /\ FindSummary(PreIndex(c), cr.id) = 0
      /\ OtherSummaries(idx, cr.id) = PreIndex(c)

\* a thread was created with a message longer than the preview, next to a
\* thread that was there
C7_Witness ==
  \E c \in Slots :
    /\ Returned(c, "createThread")
    /\ calls[c].msg # None
    /\ Len(calls[c].msg[1].content) > 100
    /\ PreIndex(c) # <<>>

\* C8: each appendMessage of callers that call one after another leaves the
\* thread's earlier messages followed by its message, so that a sequence of
\* appends leaves them in call order, and leaves the first 100 characters of
\* its message as the summary's preview.
C8_AppendsKeepOrder ==
  \A c \in Slots :
    Returned(c, "appendMessage") =>
      LET cr == calls[c]
          th == DiskThread(cr.root, cr.id)
          idx == DiskIndex(cr.root)
          at == FindSummary(idx, cr.id)
      IN
      /\ GetThreadNow(cr.root, cr.id) = "ok"
      /\ PreThread(c) # <<>>
      /\ th[1].messages = PreThread(c)[1].messages \o <<cr.msg[1]>>
      /\ at # 0
      /\ idx[at].lastMessagePreview = Some(FirstChars(cr.msg[1].content, 100))

\* the second of two appends to a thread created with a message: a message
\* longer than the preview after a short one
C8_Witness ==
  \E c \in Slots :
    /\ Returned(c, "appendMessage")
    /\ Len(PreThread(c)[1].messages) >= 2
    /\ PreThread(c)[1].messages[2].content = ShortText
    /\ calls[c].msg[1].content = LongText

\* C9: getThread, appendMessage, renameThread, archiveThread and clearMessages
\* on an id without thread file reject with NotFound and the id, and write
\* no file.
C9_MissingThreadNotFound ==
  \A c \in Slots :
    (calls[c].op \in ThreadOps /\ calls[c].sawMissing) =>
      /\ calls[c].pc = "done"
      /\ calls[c].res = "NotFound"
      /\ calls[c].err = <<calls[c].id>>
      /\ ~calls[c].touched /\ ~calls[c].wroteThread /\ ~calls[c].wroteIndex

\* an update of a thread without file was rejected while the index lists
\* other threads
C9_Witness ==
  \E c \in Slots :
    /\ calls[c].op \in UpdateOps
    /\ calls[c].sawMissing
    /\ calls[c].pc = "done"
    /\ threadFiles[calls[c].id] = Missing
    /\ DiskIndex(calls[c].root) # <<>>

\* C10: after archiveThread returned, getThread gives the thread with all
\* its messages and status archived, listThreads has its summary with status
\* archived, and the chat widget's list of active threads has not.
C10_ArchivedThreadIsKept ==
  \A c \in Slots :
    Returned(c, "archiveThread") =>
      LET cr == calls[c]
          th == DiskThread(cr.root, cr.id)
          listed == ListThreadsNow(cr.root)
          at == FindSummary(listed, cr.id)
      IN
      /\ GetThreadNow(cr.root, cr.id) = "ok"
      /\ PreThread(c) # <<>>
      /\ th[1].messages = PreThread(c)[1].messages
      /\ th[1].status = "archived"
      /\ at # 0
      /\ listed[at].status = "archived"
      /\ \A i \in 1..Len(ActiveThreads(listed)) :
           ActiveThreads(listed)[i].id # cr.id

\* a thread with messages was archived, another thread stays active
C10_Witness ==
  \E c \in Slots :
    /\ Returned(c, "archiveThread")
    /\ PreThread(c)[1].messages # <<>>
    /\ ActiveThreads(ListThreadsNow(calls[c].root)) # <<>>

(* a read of a file of an older generation, by the two operations that    *)
(* read one file and write none: listThreads and getThread                 *)
ReadOf(c) ==
  IF calls[c].op = "listThreads"
  THEN [was |-> calls[c].pre.index, is |-> indexFile]
  ELSE [was |-> calls[c].pre.threads[calls[c].id],
        is |-> threadFiles[calls[c].id]]

ReadOlderGeneration(c) ==
  /\ calls[c].op \in {"listThreads", "getThread"}
  /\ calls[c].pc = "done" /\ calls[c].res = "ok"
  /\ Generation(ReadOf(c).was) \in {1, 2}

\* the file is in the generation the build writes, with the JSON it had,
\* and a read of it decodes that JSON and writes nothing back
Upgraded(c) ==
  LET f == ReadOf(c)
      again == ReadPlan(build, f.is, calls[c].root)
      before == ReadPlan(build, f.was, calls[c].root)
  IN /\ Generation(f.is) = WriteGeneration(build)
     /\ ~again.fail /\ ~again.migrate
     /\ JsonParseOk(again.text)
     /\ again.text = before.text
     /\ calls[c].ret = IF calls[c].op = "listThreads"
                       THEN SortThreads(JsonParse(again.text).threads)
                       ELSE <<JsonParse(again.text)>>

\* C11 as claimed: after a read succeeded on a file stored as plaintext JSON
\* or as base64 of JSON, the file is in the newest write generation with the
\* same JSON, and a second read returns the same and writes nothing back.
C11_ReadUpgradesFile ==
  \A c \in Slots : ReadOlderGeneration(c) => Upgraded(c)

\* C11 as amended: the same, unless the write-back failed; then the read
\* succeeded all the same and the file is as it was.
C11_ReadUpgradesFileUnlessWriteFails ==
  \A c \in Slots :
    ReadOlderGeneration(c) =>
      /\ ~calls[c].backFailed => Upgraded(c)
      /\ calls[c].backFailed =>
           /\ ReadOf(c).is = ReadOf(c).was
           /\ Generation(ReadOf(c).was) # WriteGeneration(build)

\* a plaintext thread file was read and written back in the build's format
C11_Witness ==
  \E c \in Slots :
    /\ ReadOlderGeneration(c)
    /\ calls[c].op = "getThread"
    /\ Generation(ReadOf(c).was) = 1
    /\ ~calls[c].backFailed
    /\ ReadOf(c).is # ReadOf(c).was

(* the chat-encoding build on files that do not parse                      *)
\* call c found threads.json with bytes that are no JSON and returned
FoundIndexCorrupted(c) ==
  /\ calls[c].pc = "done" /\ calls[c].res = "ok"
  /\ calls[c].indexWas = "nojson"
  /\ ~calls[c].meddled

\* what C12 says but for the fate of the index file: the empty index is
\* used, no thread file is touched by that, the threads that were there stay
\* retrievable and unlisted, and a later update does not list them again
OrphansThreads(c) ==
  LET cr == calls[c]
      idx == DiskIndex(cr.root)
  IN
  /\ FoundIndexCorrupted(c) =>
       /\ cr.op = "listThreads" => cr.ret = <<>> /\ threadFiles = cr.pre.threads
       /\ \A i \in 1..Len(idx) : cr.op = "createThread" /\ idx[i].id = cr.id
       /\ OtherFilesKept(c)
       /\ \A j \in ThreadIds :
            (DiskThreadOf(cr.pre.threads[j], cr.root) # <<>>
               /\ ~(cr.op = "deleteThread" /\ j = cr.id))
              => /\ GetThreadNow(cr.root, j) = "ok"
                 /\ FindSummary(ListThreadsNow(cr.root), j) = 0
  /\ (Returned(c, cr.op) /\ cr.op \in UpdateOps /\ ~cr.meddled
        /\ FindSummary(PreIndex(c), cr.id) = 0)
     => /\ FindSummary(ListThreadsNow(cr.root), cr.id) = 0
        /\ GetThreadNow(cr.root, cr.id) = "ok"
        /\ OtherFilesKept(c)

\* C12 as claimed: when a read finds threads.json corrupted, the index file
\* is deleted and the empty index is used, and no thread file is touched by
\* that: the threads that were there stay retrievable through getThread and
\* are not listed, and a later appendMessage, renameThread, archiveThread or
\* clearMessages on one of them does not put its summary back.
C12_CorruptIndexIsDeleted ==
  \A c \in Slots :
    /\ OrphansThreads(c)
    /\ (FoundIndexCorrupted(c) /\ calls[c].op = "listThreads")
         => indexFile = Missing

\* C12 as amended: the same, but the index file is deleted only when its
\* deletion does not fail; when it fails the empty index is used all the
\* same and the corrupted file stays.
C12_CorruptIndexOrphansThreads ==
  \A c \in Slots :
    /\ OrphansThreads(c)
    /\ (FoundIndexCorrupted(c) /\ calls[c].op = "listThreads")
         => IF calls[c].dropFailed
            THEN indexFile # Missing /\ NoJson(indexFile)
            ELSE indexFile = Missing

\* appendMessage found the index corrupted: the thread has the message, the
\* index that was written lists nothing
C12_Witness ==
  \E c \in Slots :
    /\ FoundIndexCorrupted(c)
    /\ calls[c].op = "appendMessage"
    /\ ~calls[c].dropFailed
    /\ calls[c].pre.index \in JunkTexts
    /\ PreThread(c) # <<>>
    /\ DiskThread(calls[c].root, calls[c].id) # PreThread(c)
    /\ DiskIndex(calls[c].root) = <<>>
    /\ indexFile # Missing

\* getThread met a thread file whose content decodes to no JSON
MetCorruptThread(c) ==
  /\ calls[c].op = "getThread" /\ calls[c].pc = "done"
  /\ calls[c].threadWas = "nojson" /\ ~calls[c].meddled

\* it rejected with ReadFailed, returned nothing, and left the index and the
\* other thread files alone
SurfacedCorruptThread(c) ==
  /\ calls[c].res = "ReadFailed"
  /\ calls[c].err = ThreadPath(calls[c].root, calls[c].id)
  /\ calls[c].ret = <<>>
  /\ DiskThread(calls[c].root, calls[c].id) = <<>>
  /\ indexFile = calls[c].pre.index
  /\ OtherFilesKept(c)

\* C13 as claimed: getThread on a thread file whose content decodes to no
\* JSON rejects with ReadFailed and deletes the file, so that getThread on
\* the id rejects with NotFound afterwards; the index is not changed, and no
\* thread is returned or stored in place of the corrupted one.
C13_CorruptThreadIsDeleted ==
  \A c \in Slots :
    MetCorruptThread(c) =>
      /\ SurfacedCorruptThread(c)
      /\ threadFiles[calls[c].id] = Missing
      /\ GetThreadNow(calls[c].root, calls[c].id) = "NotFound"

\* C13 as amended: the same, but the file is deleted only when its deletion
\* does not fail; when it fails the file stays and getThread on the id
\* rejects with ReadFailed again.
C13_CorruptThreadIsDropped ==
  \A c \in Slots :
    MetCorruptThread(c) =>
      /\ SurfacedCorruptThread(c)
      /\ GetThreadNow(calls[c].root, calls[c].id) =
           IF calls[c].dropFailed THEN "ReadFailed" ELSE "NotFound"

\* getThread has met and deleted a corrupted thread file the index lists
C13_Witness ==
  \E c \in Slots :
    /\ MetCorruptThread(c)
    /\ ~calls[c].dropFailed
    /\ calls[c].pre.threads[calls[c].id] \in JunkTexts
    /\ threadFiles[calls[c].id] = Missing
    /\ FindSummary(DiskIndex(calls[c].root), calls[c].id) # 0

(* the chat-encryption build after the project directory was moved        *)
\* getThread under a moved root has met a thread file (every thread file of
\* these behaviours was written under r1) and has ended
ReadUnderOtherRoot(c) ==
  /\ calls[c].op = "getThread" /\ calls[c].pc = "done"
  /\ calls[c].root \in MovedRoots
  /\ calls[c].pre.threads[calls[c].id] # Missing

\* C14: getThread under root r2 on a thread file that the store wrote under
\* root r1 rejects with ReadFailed, leaves the file's bytes as they were, and
\* the file is readable under r1 as before.
C14_MovedProjectIsUnreadable ==
  \A c \in Slots :
    ReadUnderOtherRoot(c) =>
      /\ calls[c].res = "ReadFailed"
      /\ calls[c].err = ThreadPath(calls[c].root, calls[c].id)
      /\ calls[c].ret = <<>>
      /\ threadFiles = calls[c].pre.threads
      /\ indexFile = calls[c].pre.index
      /\ GetThreadNow("r1", calls[c].id) = "ok"
      /\ DiskThread("r1", calls[c].id) = DiskThreadOf(calls[c].pre.threads[calls[c].id], "r1")

\* after an update under r1, getThread under r2 has failed on the thread
C14_Witness ==
  \E c \in Slots :
    /\ ReadUnderOtherRoot(c)
    /\ calls[c].res = "ReadFailed"
    /\ DiskThread("r1", calls[c].id) # <<>>
    /\ DiskThread("r1", calls[c].id) # <<StoredThread(calls[c].id)>>

\* C15: for every text and every root, decryptChatData of what
\* encryptChatData gave for the text under the root, called with the root
\* alone, returns the text; decodeChatData of what encodeChatData gave for a
\* text returns the text.
C15_RoundTrip ==
  /\ (applied.fn = "encryptDecrypt"
        /\ applied.arg.writeRoot = applied.arg.readRoot)
       => applied.out = Value(applied.arg.data)
  /\ applied.fn = "encodeDecode" => applied.out = Value(applied.arg.data)

\* a text with ':' and a character of two bytes came back from decryption
C15_Witness ==
  /\ applied.fn = "encryptDecrypt"
  /\ applied.arg.writeRoot = applied.arg.readRoot
  /\ \E i \in 1..Len(applied.arg.data) : applied.arg.data[i] = ":"
  /\ \E i \in 1..Len(applied.arg.data) : applied.arg.data[i] = Eacute
  /\ applied.out.ok
  /\ applied.arg.sealed # applied.arg.data

\* C16: for every text and every two different roots, decryptChatData under
\* the one root of what encryptChatData gave under the other throws: it
\* returns no text.
C16_OtherRootFails ==
  (applied.fn = "encryptDecrypt" /\ applied.arg.writeRoot # applied.arg.readRoot)
    => applied.out = Thrown

\* a text that is not empty was encrypted under one root and decryption
\* under the other threw
C16_Witness ==
  /\ applied.fn = "encryptDecrypt"
  /\ applied.arg.writeRoot # applied.arg.readRoot
  /\ applied.arg.data # <<>>
  /\ ~applied.out.ok

\* C17: decryptChatData throws, and so returns no text, for every text that
\* does not split at ':' into exactly 3 segments, and for every text of 3
\* segments of which one differs from the segment encryptChatData produced
\* under the same root.
C17_ChangedInputFails ==
  /\ applied.fn = "decrypt" => applied.out = Thrown
  /\ (applied.fn = "decryptChanged" /\ applied.arg.text # applied.arg.sealed)
       => applied.out = Thrown

\* how many ':' a text has
Colons(s) == Cardinality({i \in 1..Len(s) : s[i] = ":"})

\* the first character of the text that is no white space is '{' or '['
LooksLikeJson(s) ==
  \E i \in 1..Len(s) :
    /\ s[i] \in {"{", "["}
    /\ \A j \in 1..(i - 1) : IsSpace(s[j])

\* C18: a text with exactly two ':' is of generation 3 (isEncoded and
\* isEncrypted say yes) whatever its segments are, also when it is JSON;
\* any other text that looks like JSON is of generation 1 (isEncoded says
\* no); any other text is of generation 2 (isEncoded says yes) exactly when
\* its base64 decoding looks like JSON, as the base64 of a JSON text does.
C18_ClassifierOrder ==
  applied.fn = "classify" =>
    LET data == applied.arg.data
    IN /\ IF Colons(data) = 2
          THEN applied.out.encoded /\ applied.out.encrypted
          ELSE /\ ~applied.out.encrypted
               /\ IF LooksLikeJson(data) THEN ~applied.out.encoded
                  ELSE applied.out.encoded
                         = LooksLikeJson(Utf8Text(FromBase64(data)))
       /\ applied.arg.kind = "encoded"
            => applied.out.encoded = LooksLikeJson(applied.arg.of)

\* a text that starts with '{' and has exactly two ':' was classified as
\* encoded
C18_Witness ==
  /\ applied.fn = "classify"
  /\ StartsWith(applied.arg.data, "{")
  /\ Colons(applied.arg.data) = 2
  /\ applied.out.encoded

\* the text before the first '.', '!' or '?' that white space follows, the
\* whole text if there is none
SentenceOf(text) ==
  LET stops == {i \in 1..(Len(text) - 1) :
                   text[i] \in {".", "!", "?"} /\ IsSpace(text[i + 1])}
  IN IF stops = {} THEN text ELSE SubSeq(text, 1, MinOf(stops) - 1)

\* C19: the title createThread gives a thread whose first message has role
\* user is the first sentence of the trimmed content when that has at most
\* 60 characters, and else the first 57 characters of the trimmed content
\* and '...', 60 characters in all; no title is longer than 60 characters;
\* without a first message or with another role the title is 'New Chat'.
C19_TitleOfNewThread ==
  applied.fn = "title" =>
    LET msg == applied.arg.msg
        title == applied.out
    IN IF msg = None \/ msg[1].role # "user"
       THEN title = <<"N", "e", "w", " ", "C", "h", "a", "t">>
       ELSE LET text == Trim(msg[1].content)
            IN /\ Len(SentenceOf(text)) <= 60 => title = SentenceOf(text)
               /\ Len(SentenceOf(text)) > 60 =>
                    /\ title = SubSeq(text, 1, 57) \o <<".", ".", ".">>
                    /\ Len(title) = 60
               /\ Len(title) <= 60

\* a first sentence of more than 60 characters was cut to 57 and '...'
C19_Witness ==
  /\ applied.fn = "title"
  /\ applied.arg.msg # None
  /\ applied.arg.msg[1].role = "user"
  /\ Len(SentenceOf(Trim(applied.arg.msg[1].content))) > 60
  /\ Len(applied.out) = 60
  /\ SubSeq(applied.out, 57, 60) = <<"x", ".", ".", ".">>

\* the list has every summary of the index exactly once and nothing else
SameSummaries(list, index) ==
  /\ Len(list) = Len(index)
  /\ \A j \in 1..Len(index) :
       Cardinality({i \in 1..Len(list) : list[i] = index[j]}) = 1

\* most recent first
NewestFirst(list) ==
  \A i \in 1..Len(list), j \in 1..Len(list) :
    i < j => list[i].updatedAt >= list[j].updatedAt

\* C20 as stated: listThreads returns every summary of the index, archived
\* or not, each once, most recently updated first, whatever their order in
\* the file, and leaves the file threads.json as it was.
C20_ListThreadsWritesNothing ==
  \A c \in Slots :
    Returned(c, "listThreads") =>
      /\ SameSummaries(calls[c].ret, PreIndex(c))
      /\ NewestFirst(calls[c].ret)
      /\ indexFile = calls[c].pre.index

\* C20: listThreads returns every summary of the index, archived or not,
\* each once, most recently updated first, whatever their order in the file;
\* the summaries in the file and their order stay as they were; the file is
\* written only when it was in an older generation, and then with the same
\* JSON in the newest generation.
C20_ListThreadsKeepsIndex ==
  \A c \in Slots :
    Returned(c, "listThreads") =>
      /\ SameSummaries(calls[c].ret, PreIndex(c))
      /\ NewestFirst(calls[c].ret)
      /\ DiskIndex(calls[c].root) = PreIndex(c)
      /\ indexFile # calls[c].pre.index =>
           /\ Generation(calls[c].pre.index) < WriteGeneration(build)
           /\ Generation(indexFile) = WriteGeneration(build)
      /\ threadFiles = calls[c].pre.threads

\* listThreads returned an archived summary before an active one that the
\* file has first
C20_Witness ==
  \E c \in Slots :
    /\ Returned(c, "listThreads")
    /\ Len(calls[c].ret) = 2
    /\ calls[c].ret # PreIndex(c)
    /\ calls[c].ret[1].status = "archived"
    /\ calls[c].ret[2].status = "active"
    /\ calls[c].ret[1].updatedAt > calls[c].ret[2].updatedAt

\* C21: when the removal of the thread file fails with an error that is not
\* 'no such file', deleteThread resolves all the same and the index has no
\* summary of the id; it also resolves when there is no thread file.
C21_DeleteSurvivesUnlinkError ==
  \A c \in Slots :
    (calls[c].op = "deleteThread" /\ calls[c].unlinked \in {"failed", "missing"})
    => /\ calls[c].pc = "done" /\ calls[c].res = "ok"
       /\ FindSummary(DiskIndex(calls[c].root), calls[c].id) = 0
       /\ calls[c].unlinked = "failed"
            => threadFiles[calls[c].id] = calls[c].pre.threads[calls[c].id]

\* the thread was listed and had a file, the removal of the file failed
C21_Witness ==
  \E c \in Slots :
    /\ calls[c].op = "deleteThread" /\ calls[c].unlinked = "failed"
    /\ calls[c].res = "ok"
    /\ FindSummary(PreIndex(c), calls[c].id) # 0
    /\ threadFiles[calls[c].id] # Missing

\* C22: after clearMessages returned, getThread gives the thread with no
\* messages and with the id, title, status and createdAt it had; the summary
\* of the id in the index has no lastMessagePreview and the thread's
\* updatedAt.
C22_ClearedThread ==
  \A c \in Slots :
    Returned(c, "clearMessages") =>
      LET cr == calls[c]
          th == DiskThread(cr.root, cr.id)
          idx == DiskIndex(cr.root)
          at == FindSummary(idx, cr.id)
      IN
      /\ GetThreadNow(cr.root, cr.id) = "ok"
      /\ PreThread(c) # <<>>
      /\ th[1].messages = <<>>
      /\ th[1].id = cr.id
      /\ th[1].title = PreThread(c)[1].title
      /\ th[1].status = PreThread(c)[1].status
      /\ th[1].createdAt = PreThread(c)[1].createdAt
      /\ cr.ret = th
      /\ at # 0 =>
           /\ idx[at].lastMessagePreview = None
           /\ idx[at].updatedAt = th[1].updatedAt

\* a thread with a message and a preview was cleared at a later time
C22_Witness ==
  \E c \in Slots :
    /\ Returned(c, "clearMessages")
    /\ PreThread(c)[1].messages # <<>>
    /\ FindSummary(PreIndex(c), calls[c].id) # 0
    /\ PreIndex(c)[FindSummary(PreIndex(c), calls[c].id)].lastMessagePreview # None
    /\ DiskThread(calls[c].root, calls[c].id)[1].updatedAt
         > PreThread(c)[1].updatedAt

\* the typed errors: NotFound with the thread id, InvalidProjectRoot with the
\* root, WriteFailed and ReadFailed with a path
Paths ==
  {IndexPath(r) : r \in Roots} \cup {ChatDirPath(r) : r \in Roots}
    \cup {ThreadPath(r, id) : r \in Roots, id \in ThreadIds}

TypedError(cr) ==
  \/ cr.res = "NotFound" /\ cr.err = <<cr.id>>
  \/ cr.res = "InvalidProjectRoot"
  \/ cr.res \in {"WriteFailed", "ReadFailed"} /\ cr.err \in Paths

\* C23: every call that rejects, whatever file operation failed and whatever
\* was written into the files from outside, rejects with one of the four
\* typed errors and its datum.
C23_RejectionsAreTyped ==
  \A c \in Slots :
    (calls[c].pc = "done" /\ calls[c].res # "ok") => TypedError(calls[c])

\* the text of the file, as the build decodes it, is JSON
Decodes(file, root) ==
  /\ file # Missing
  /\ ~ReadPlan(build, file, root).fail
  /\ JsonParseOk(ReadPlan(build, file, root).text)

\* C24: when the write-back of a threads.json or thread file of an older
\* generation fails, the read that attempted it returns the decoded content
\* without error and the file keeps the content it had: listThreads and
\* getThread return it, an update goes on with the thread it read.
C24_FailedWriteBackIsIgnored ==
  \A c \in Slots :
    LET cr == calls[c] IN
    /\ (cr.op \in {"listThreads", "getThread"} /\ cr.pc = "done"
          /\ cr.backFailed /\ Decodes(ReadOf(c).was, cr.root))
       => /\ cr.res = "ok"
          /\ cr.ret = IF cr.op = "listThreads" THEN SortThreads(PreIndex(c))
                      ELSE PreThread(c)
          /\ ReadOf(c).is = ReadOf(c).was
          /\ Generation(ReadOf(c).was) # WriteGeneration(build)
    /\ (cr.op \in UpdateOps /\ cr.backFailed /\ cr.threadWas = "json"
          /\ Decodes(cr.pre.threads[cr.id], cr.root))
       => /\ <<cr.base>> = PreThread(c)
          /\ cr.res # "NotFound"
          /\ (cr.res = "ReadFailed" /\ Decodes(cr.pre.index, cr.root))
               => cr.indexWas = "error"

\* getThread returned the thread of a plaintext file whose write-back failed
C24_Witness ==
  \E c \in Slots :
    /\ calls[c].op = "getThread" /\ calls[c].pc = "done"
    /\ calls[c].backFailed
    /\ calls[c].res = "ok"
    /\ Generation(threadFiles[calls[c].id]) = 1
    /\ calls[c].ret = <<StoredThread(calls[c].id)>>

WritingOps == {"createThread"} \cup UpdateOps

\* call c ended with WriteFailed for the file at path
WriteFailedAt(c, path) ==
  /\ calls[c].op \in WritingOps
  /\ calls[c].pc = "done"
  /\ calls[c].res = "WriteFailed"
  /\ calls[c].err = path

\* the thread file of call c holds what the operation was to store
HoldsNewContent(c) ==
  LET cr == calls[c]
      th == DiskThread(cr.root, cr.id)
  IN
  /\ th # <<>>
  /\ CASE cr.op = "createThread" ->
            /\ cr.pre.threads[cr.id] = Missing
            /\ th[1].messages = (IF cr.msg = None THEN <<>> ELSE <<cr.msg[1]>>)
       [] cr.op = "appendMessage" ->
            th[1].messages = PreThread(c)[1].messages \o <<cr.msg[1]>>
       [] cr.op = "renameThread" ->
            /\ th[1].title = cr.title
            /\ th[1].messages = PreThread(c)[1].messages
       [] cr.op = "archiveThread" ->
            /\ th[1].status = "archived"
            /\ th[1].messages = PreThread(c)[1].messages
       [] cr.op = "clearMessages" -> th[1].messages = <<>>

C26_ThreadWriteFailed ==
  \E c \in Slots :
    /\ calls[c].op = "renameThread"
    /\ WriteFailedAt(c, ThreadPath(calls[c].root, calls[c].id))
    /\ FindSummary(PreIndex(c), calls[c].id) # 0

\* C27: once deleteThread(root, id) has returned and removed the thread file
\* (or found none), threads.json has no summary of id and there is no thread
\* file of id, also when the other call was an appendMessage, renameThread,
\* archiveThread or clearMessages on the same id that overlapped with it.
C27_DeletedStaysDeleted ==
  \A c \in Slots :
    (/\ Returned(c, "deleteThread")
     /\ calls[c].unlinked \in {"removed", "missing"}
     /\ \A d \in Slots \ {c} :
          \/ calls[d].op = "idle"
          \/ calls[d].op \in UpdateOps /\ calls[d].id = calls[c].id)
      => /\ FindSummary(DiskIndex(calls[c].root), calls[c].id) = 0
         /\ threadFiles[calls[c].id] = Missing

\* C28: when two createThread calls on one project have both returned,
\* threads.json has a summary of each of the two new threads, also when the
\* calls overlapped.
C28_BothCreatedThreadsListed ==
  \A c, d \in Slots :
    (/\ c # d
     /\ Returned(c, "createThread") /\ Returned(d, "createThread")
     /\ calls[c].root = calls[d].root)
      => /\ calls[c].id # calls[d].id
         /\ FindSummary(DiskIndex(calls[c].root), calls[c].id) # 0
         /\ FindSummary(DiskIndex(calls[c].root), calls[d].id) # 0

\* C29: when getThread on a thread file in plaintext JSON and appendMessage
\* on the same thread have both returned, the appended message is in the
\* thread file, also when the calls overlapped: the write-back of the file
\* that getThread read replaces nothing that was written after it was read.
C29_WriteBackKeepsAppended ==
  \A c, d \in Slots :
    (/\ Returned(c, "getThread") /\ Returned(d, "appendMessage")
     /\ calls[c].root = calls[d].root /\ calls[c].id = calls[d].id)
      => LET th == DiskThread(calls[d].root, calls[d].id) IN
         /\ th # <<>>
         /\ \E i \in 1..Len(th[1].messages) : th[1].messages[i] = calls[d].msg[1]

\* no call is under way
AllReturned == \A c \in Slots : Free(c)

\* the summary is that of the thread: same title, status and times, and as
\* preview the first 100 characters of the last message, or none
SummaryOf(s, th) ==
  /\ s.id = th.id
  /\ s.title = th.title
  /\ s.status = th.status
  /\ s.createdAt = th.createdAt
  /\ s.updatedAt = th.updatedAt
  /\ s.lastMessagePreview =
       (IF th.messages = <<>> THEN None
        ELSE Some(FirstChars(th.messages[Len(th.messages)].content, 100)))

\* C30: with calls one after the other and no failing file operation, when
\* no call is under way every summary in threads.json has a thread file of
\* its id with the same title, status, createdAt and updatedAt, its preview is
\* the first 100 characters of the thread's last message, or absent when the
\* thread has no messages, and no two summaries have the same id.
C30_IndexMatchesThreadFiles ==
  AllReturned =>
    \A r \in Roots :
      LET idx == DiskIndex(r) IN
      /\ \A i \in 1..Len(idx) :
           LET th == DiskThread(r, idx[i].id) IN
           th # <<>> /\ SummaryOf(idx[i], th[1])
      /\ \A i, j \in 1..Len(idx) : idx[i].id = idx[j].id => i = j

\* after an append of a text longer than the preview the index lists two
\* threads, one of them without messages
C30_Witness ==
  /\ AllReturned
  /\ \E c \in Slots :
       /\ Returned(c, "appendMessage")
       /\ calls[c].msg[1].content = LongText
       /\ LET idx == DiskIndex(calls[c].root) IN
          /\ Len(idx) = 2
          /\ \E i \in 1..2 : idx[i].lastMessagePreview = None
          /\ \E i \in 1..2 : /\ idx[i].id = calls[c].id
                              /\ idx[i].lastMessagePreview # Some(LongText)

\* C31: in the encryption build a read that failed on a file that is not
\* encrypted and holds no JSON has rewritten no file: threads.json and the
\* thread files hold the bytes they held when the call began.
C31_FailedReadKeepsBytes ==
  \A c \in Slots :
    (/\ build = "encryption"
     /\ calls[c].pc = "done" /\ calls[c].res = "ReadFailed"
     /\ ~calls[c].meddled
     /\ \/ calls[c].threadWas = "nojson"
           /\ ~isEncrypted(calls[c].pre.threads[calls[c].id])
        \/ calls[c].indexWas = "nojson" /\ ~isEncrypted(calls[c].pre.index))
      => /\ threadFiles = calls[c].pre.threads
         /\ indexFile = calls[c].pre.index

\* C32: every createThread and appendMessage that handleSend has issued was
\* issued by a send made while the editor showed the sketch of a saved
\* project, and every such appendMessage names a thread of the project root
\* it passes.
C32_SendSavesToOpenProject ==
  \A r \in widget.issued :
    r.op \in {"createThread", "appendMessage"} =>
      /\ getCurrentProjectRoot(r.sketch) # NoRoot
      /\ r.op = "appendMessage" => widget.owner[r.id] = r.root

\* handler h is in loadProjectHistory and has found no saved project
FoundNoProject(h) ==
  /\ widget.handlers[h].pc = "load"
  /\ widget.handlers[h].lpc = "root"
  /\ widget.handlers[h].root = NoRoot

\* C33: the step of loadProjectHistory that has found no saved project
\* clears messages (the welcome message is then shown) and inMemoryThreadName
\* when currentProjectRoot was set, and keeps both when it was not.
C33_ClosedProjectClearsChat ==
  [][\A h \in Handlers :
       (FoundNoProject(h) /\ widget.handlers[h]' # widget.handlers[h]) =>
         IF widget.currentProjectRoot # NoRoot
         THEN /\ widget.messages'[1] = "welcome"
              /\ widget.inMemoryThreadName' = None
         ELSE /\ widget.inMemoryThreadName' = widget.inMemoryThreadName
              /\ Len(widget.messages) > 0 =>
                    SubSeq(widget.messages', 1, Len(widget.messages))
                      = widget.messages]_vars

\* the handleSend calls under way, and those of them awaiting callLLM
Sending == {h \in Handlers : widget.handlers[h].kind = "send"}

AwaitingLLM == {h \in Sending : widget.handlers[h].pc = "llm"}

\* C34: at most one handleSend is under way (one invoked meanwhile returns
\* at once), at most one request to the LLM is in flight, and isProcessing
\* is false when no handleSend is under way.
C34_OneRequestAtATime ==
  /\ Cardinality(Sending) <= 1
  /\ Cardinality(AwaitingLLM) <= 1
  /\ Sending = {} => ~widget.isProcessing

====
